---- MODULE Spec2Model ----
(***************************************************************************)
(* Model of co2minimeter.py: the acquisition thread (CO2Sensor.read_co2    *)
(* with perform_calibration), the two calibration triggers (the web        *)
(* /calibrate handler and CalibrationButtonMonitor), the in-memory window  *)
(* `measurements` with its daily CSV log, and the readers that copy the    *)
(* window (generate_plot, the web main page).                              *)
(*                                                                         *)
(* Time is counted in whole hours.  A datetime is an integer number of     *)
(* hours; a timestamp string "YYYY-MM-DD HH:MM:SS" is the pair             *)
(* <<date, hour of the day>>, produced by strftime and read back by        *)
(* strptime; strings are compared as Python compares them, field by field  *)
(* from the left.  A measurement is [timestamp, co2]; temperature and      *)
(* humidity travel with co2 and are not modelled.                          *)
(*                                                                         *)
(* Every critical section of the program (with calibration_lock, with      *)
(* measurement_lock, with display_condition) holds one assignment or one   *)
(* copy, and is one atomic step here.  Variables named h_... are history   *)
(* variables: they record what happened and are never read by the program. *)
(***************************************************************************)
EXTENDS Integers, Sequences, FiniteSets, TLC

\* ------------------------------------------------------------ constants
CO2_MEASUREMENT_INTERVAL == 60
SENSOR_WARMUP_READINGS == 2
HOURS_TO_KEEP == 12
\* the measurement interval perform_calibration sets while stabilizing
CalibrationInterval == 2
\* hours in a calendar day: what "%Y-%m-%d" cuts a datetime at
HoursPerDay == 24
\* random.randint(400, 2000): the two ends of the simulated range
CO2Range == {400, 2000}
\* what the sensor reads where calibrations are followed
CalValues == {400}

\* --------------------------------------------------------------- bounds
\* the program is started StartHour hours into day 1 (day 0 is "yesterday")
StartHour == 6
\* the clock is followed for HorizonHours hours after the start
HorizonHours == 18
\* measurements appended by the acquisition loop in one run
MaxSamples == 2
\* the same, in the runs where calibrations are followed
CalSamples == 1
\* iterations of the stabilization wait (range(120) in the source)
StabilizeSteps == 2

StartTime == HoursPerDay + StartHour
MaxTime == StartTime + HorizonHours
\* how far the wall clock moves between two observations of it
ClockSteps == {6, 18}
Dates == 0..(MaxTime \div HoursPerDay)

\* ---------------------------------------------------- timestamp strings
\* datetime.strftime("%Y-%m-%d %H:%M:%S")
strftime(t) == <<t \div HoursPerDay, t % HoursPerDay>>

\* datetime.strptime(s, "%Y-%m-%d %H:%M:%S")
strptime(s) == s[1] * HoursPerDay + s[2]

\* dt.strftime("%Y-%m-%d") of a parsed timestamp string
DateOf(s) == strptime(s) \div HoursPerDay

\* s <= t on timestamp strings (Python's str comparison)
StrLeq(s, t) == s[1] < t[1] \/ (s[1] = t[1] /\ s[2] <= t[2])

Measurement(ts, co2) == [timestamp |-> ts, co2 |-> co2]
NoReading == [timestamp |-> <<0, 0>>, co2 |-> 0]

\* latest_reading of the display: "---" while the sensor warms up, "N/A" for an
\* empty window, else the CO2 value of measurements[-1]
Shown(kind, m) == [kind |-> kind, timestamp |-> m.timestamp, co2 |-> m.co2]
NothingShown == Shown("nothing", NoReading)

\* display_text without its time and date: "---", "N/A" or the CO2 value; and
\* the None of last_display
DisplayText(r) == [kind |-> r.kind, co2 |-> r.co2]
NoText == DisplayText(NothingShown)

\* ---------------------------------------------------------- the CSV log
HeaderRow == [kind |-> "header", timestamp |-> <<0, 0>>, co2 |-> 0]
DataRow(m) == [kind |-> "row", timestamp |-> m.timestamp, co2 |-> m.co2]
NoLog == [d \in Dates |-> <<>>]

\* a save that writes the record alone into a new file
save_to_csv_no_header(log, m) ==
    LET d == DateOf(m.timestamp)
    IN  [log EXCEPT ![d] = log[d] \o <<DataRow(m)>>]

\* a save that opens the file for writing, not for appending
save_to_csv_truncating(log, m) ==
    LET d == DateOf(m.timestamp)
    IN  [log EXCEPT ![d] = <<HeaderRow, DataRow(m)>>]

\* a save that writes the header row before every record
save_to_csv_header_each_time(log, m) ==
    LET d == DateOf(m.timestamp)
    IN  [log EXCEPT ![d] = log[d] \o <<HeaderRow, DataRow(m)>>]

\* save_to_csv: the segment of the timestamp's date, a header row first when
\* the file did not exist, then the record
save_to_csv(log, m) ==
    LET d == DateOf(m.timestamp)
        file_exists == log[d] # <<>>
        header == IF file_exists THEN <<>> ELSE <<HeaderRow>>
    IN  [log EXCEPT ![d] = log[d] \o header \o <<DataRow(m)>>]

RECURSIVE InsertByTimestamp(_, _)
InsertByTimestamp(x, s) ==
    IF s = <<>> THEN <<x>>
    ELSE IF StrLeq(s[Len(s)].timestamp, x.timestamp) THEN Append(s, x)
    ELSE Append(InsertByTimestamp(x, SubSeq(s, 1, Len(s) - 1)), s[Len(s)])

\* the list left in the order the files were read
SortByTimestampUnsorted(s) == s

\* list.sort(key=lambda x: x[0]): a stable sort on the timestamp string
RECURSIVE SortByTimestamp(_)
SortByTimestamp(s) ==
    IF s = <<>> THEN <<>>
    ELSE InsertByTimestamp(s[Len(s)], SortByTimestamp(SubSeq(s, 1, Len(s) - 1)))

\* a line whose CO2 field is no integer (int(row[1]) raises); its timestamp
\* is well formed
BadRow(ts) == [kind |-> "bad", timestamp |-> ts, co2 |-> 0]
\* a line of fewer than 4 fields
ShortRow == [kind |-> "short", timestamp |-> <<0, 0>>, co2 |-> 0]

\* for row in reader, inside the try around the whole file: a line of fewer
\* than 4 fields is passed over, a line whose fields parse is taken, and the
\* first line whose parse raises ends the reading of the file
RECURSIVE ReadRows(_)
ReadRows(rows) ==
    IF rows = <<>> THEN <<>>
    ELSE IF Head(rows).kind = "short" THEN ReadRows(Tail(rows))
    ELSE IF Head(rows).kind = "row" THEN <<Head(rows)>> \o ReadRows(Tail(rows))
    ELSE <<>>

\* the rows of one file that load_recent_measurements keeps: the first line is
\* skipped, the others are kept when their time is not before the cutoff
RecentRows(file, cutoff_time) ==
    LET rows == IF file = <<>> THEN <<>> ELSE ReadRows(Tail(file))
        kept == SelectSeq(rows, LAMBDA r : strptime(r.timestamp) >= cutoff_time)
    IN  [i \in 1..Len(kept) |-> Measurement(kept[i].timestamp, kept[i].co2)]

\* a load that leaves out the records whose time is end_time
HistoricalRowsBeforeEnd(file, start_time, end_time) ==
    LET rows == IF file = <<>> THEN <<>> ELSE ReadRows(Tail(file))
        kept == SelectSeq(rows, LAMBDA r : /\ start_time <= strptime(r.timestamp)
                                           /\ strptime(r.timestamp) < end_time)
    IN  [i \in 1..Len(kept) |-> Measurement(kept[i].timestamp, kept[i].co2)]

\* the rows of one file that load_historical_data keeps
HistoricalRows(file, start_time, end_time) ==
    LET rows == IF file = <<>> THEN <<>> ELSE ReadRows(Tail(file))
        kept == SelectSeq(rows, LAMBDA r : /\ start_time <= strptime(r.timestamp)
                                           /\ strptime(r.timestamp) <= end_time)
    IN  [i \in 1..Len(kept) |-> Measurement(kept[i].timestamp, kept[i].co2)]

\* load_historical_data: the files of start_time's date to end_time's date in
\* turn, then the sort
RECURSIVE HistoricalFrom(_, _, _, _)
HistoricalFrom(log, current_date, start_time, end_time) ==
    IF current_date > end_time \div HoursPerDay THEN <<>>
    ELSE (IF current_date \in Dates
          THEN HistoricalRows(log[current_date], start_time, end_time)
          ELSE <<>>)
         \o HistoricalFrom(log, current_date + 1, start_time, end_time)

load_historical_data(log, start_time, end_time) ==
    SortByTimestamp(HistoricalFrom(log, start_time \div HoursPerDay, start_time, end_time))

\* Python's None
None == <<>>

\* datetime.strptime(row[0], ...) of get_data_range, inside try/except: pass
RowTimestamp(row) == IF row.kind \in {"row", "bad"} THEN row.timestamp ELSE None

\* get_data_range: the first record of the first file and the last record of
\* the last file, each read in a try of its own
get_data_range(log) ==
    LET csv_files == {d \in Dates : log[d] # <<>>}
    IN  IF csv_files = {} THEN <<None, None>>
        ELSE LET first_file == CHOOSE d \in csv_files : \A e \in csv_files : d <= e
                 last_file == CHOOSE d \in csv_files : \A e \in csv_files : e <= d
                 first_rows == Tail(log[first_file])
                 rows == Tail(log[last_file])
             IN  << IF first_rows = <<>> THEN None ELSE RowTimestamp(Head(first_rows)),
                    IF rows = <<>> THEN None ELSE RowTimestamp(rows[Len(rows)]) >>

\* load_recent_measurements at time t: today's file, then yesterday's, sorted
load_recent_measurements(log, t) ==
    LET cutoff_time == t - HOURS_TO_KEEP
        today == t \div HoursPerDay
        Of(d) == IF d \in Dates THEN RecentRows(log[d], cutoff_time) ELSE <<>>
    IN  SortByTimestamp(Of(today) \o Of(today - 1))

\* a cleanup that compares with > where the source has >=
cleanup_old_measurements_strict(ms, t) ==
    LET cutoff_time == t - HOURS_TO_KEEP
    IN  SelectSeq(ms, LAMBDA m : strptime(m.timestamp) > cutoff_time)

\* a cleanup whose cutoff is taken from the newest entry, not from the clock
cleanup_old_measurements_by_entry(ms, t) ==
    LET newest == IF ms = <<>> THEN t ELSE strptime(ms[Len(ms)].timestamp)
        cutoff_time == newest - HOURS_TO_KEEP
    IN  SelectSeq(ms, LAMBDA m : strptime(m.timestamp) >= cutoff_time)

\* a cleanup whose filter keeps every entry
PruneNothing(ms, t) == ms

\* the filter of cleanup_old_measurements at time t
cleanup_old_measurements(ms, t) ==
    LET cutoff_time == t - HOURS_TO_KEEP
    IN  SelectSeq(ms, LAMBDA m : strptime(m.timestamp) >= cutoff_time)

\* logs left by earlier runs: every record was written by save_to_csv, in the
\* order of a clock that never went back
PriorTimes == {StartTime - 13, StartTime - 10, StartTime - 3}

RECURSIVE WrittenLog(_, _)
WrittenLog(times, log) ==
    IF times = {} THEN log
    ELSE LET t == CHOOSE x \in times : \A y \in times : x <= y
         IN  WrittenLog(times \ {t}, save_to_csv(log, Measurement(strftime(t), 400)))

\* an empty data directory, or one with all of these records
InitLogs == {NoLog, WrittenLog(PriorTimes, NoLog)}

\* data directories that were not left by save_to_csv alone: yesterday's and
\* today's files are missing, hold a header only, or hold lines that do not
\* parse among their records
YesterdayFiles ==
    LET r == DataRow(Measurement(strftime(StartTime - 10), 400))
    IN  { <<>>, <<HeaderRow>>, <<HeaderRow, r>>,
          <<HeaderRow, BadRow(strftime(StartTime - 11)), r>>,
          <<HeaderRow, ShortRow, r>> }
TodayFiles ==
    LET r1 == DataRow(Measurement(strftime(StartTime - 5), 400))
        r2 == DataRow(Measurement(strftime(StartTime - 3), 2000))
    IN  { <<>>, <<HeaderRow>>, <<HeaderRow, r1>>,
          <<HeaderRow, r1, BadRow(strftime(StartTime - 4)), r2>> }
DamagedLogs ==
    { [d \in Dates |-> IF d = DateOf(strftime(StartTime)) THEN t
                       ELSE IF d = DateOf(strftime(StartTime)) - 1 THEN y
                       ELSE <<>>] : y \in YesterdayFiles, t \in TodayFiles }

\* ------------------------------------------------ the locks of the threads
Locks == {"measurement_lock", "calibration_lock", "display_condition"}
Threads == {"co2", "display", "web", "button", "plot"}

\* what a thread does next, as far as the locks are concerned: it enters or
\* leaves a `with` block, sleeps or calls the sensor or the file system, reads
\* or writes the display's flags, or waits on the condition
Acquire(l) == [op |-> "acquire", lock |-> l]
Release(l) == [op |-> "release", lock |-> l]
Blocking == [op |-> "block", lock |-> "none"]
Flags == [op |-> "flags", lock |-> "none"]
Wait(l) == [op |-> "wait", lock |-> l]

\* one iteration of read_co2 that samples: sleep and read, append, cleanup,
\* save, and the notification of the display
read_co2_locks ==
    << Blocking,
       Acquire("measurement_lock"), Release("measurement_lock"),
       Acquire("measurement_lock"), Release("measurement_lock"),
       Blocking,
       Acquire("display_condition"), Flags, Release("display_condition") >>

\* perform_calibration: the sensor calls and the stabilization wait, then the
\* finally block
perform_calibration_locks ==
    << Blocking, Blocking,
       Acquire("calibration_lock"), Release("calibration_lock"),
       Acquire("display_condition"), Flags, Release("display_condition") >>

\* one iteration of EInkDisplay.run: the calibration flag, force_redraw, the
\* latest reading, new_plot and the drawing, the test of new_measurement, the
\* wait
display_locks ==
    << Acquire("calibration_lock"), Release("calibration_lock"),
       Flags,
       Acquire("measurement_lock"), Release("measurement_lock"),
       Flags, Blocking,
       Flags,
       Acquire("display_condition"), Wait("display_condition"),
       Release("display_condition") >>

\* the same while a calibration is shown: the message, time.sleep(5), continue
display_calibrating_locks ==
    << Acquire("calibration_lock"), Release("calibration_lock"),
       Flags,
       Blocking >>

\* GET /calibrate with the notification made inside the calibration lock
web_calibrate_locks_nested ==
    << Acquire("calibration_lock"),
       Acquire("display_condition"), Release("display_condition"),
       Release("calibration_lock"),
       Blocking >>

\* GET /calibrate: the flag, the event, the notification, the redirect
web_calibrate_locks ==
    << Acquire("calibration_lock"), Release("calibration_lock"),
       Acquire("display_condition"), Release("display_condition"),
       Blocking >>

\* GET /: the headers, the copy, the calibration flag, the page
web_main_page_locks ==
    << Blocking,
       Acquire("measurement_lock"), Release("measurement_lock"),
       Acquire("calibration_lock"), Release("calibration_lock"),
       Blocking >>

\* a 3-second press: the flag, the event, the notification, the release
button_locks ==
    << Blocking,
       Acquire("calibration_lock"), Release("calibration_lock"),
       Acquire("display_condition"), Release("display_condition"),
       Blocking >>

\* PlotGenerator.run: the copy, the plot, the notification, the wait
plot_locks ==
    << Acquire("measurement_lock"), Release("measurement_lock"),
       Blocking,
       Acquire("display_condition"), Flags, Release("display_condition"),
       Blocking >>

\* the handlers a thread can run
Handlers(t) ==
    CASE t = "co2" -> {read_co2_locks, perform_calibration_locks}
      [] t = "display" -> {display_locks, display_calibrating_locks}
      [] t = "web" -> {web_calibrate_locks, web_main_page_locks}
      [] t = "button" -> {button_locks}
      [] t = "plot" -> {plot_locks}

\* ------------------------------------------------------------ the state
VARIABLES
    now,                      \* datetime.now(), in hours
    csv,                      \* data/data_<date>.csv: date -> lines of the file
    measurements,             \* the global list, guarded by measurement_lock
    started,                  \* main() has loaded the window and started the threads
    shutdown_event,
    calibration_event,
    calibration_in_progress,  \* the global flag, guarded by calibration_lock
    sensor_warming_up,
    pc,                       \* where the CO2Sensor thread is
    use_hardware,
    sensor,                   \* self.sensor is not None
    readings_to_skip,
    sensor_interval,          \* the measurement interval set in the SCD30
    cal_i,                    \* i of the stabilization loop
    reading,                  \* (timestamp, co2_value) of the current iteration
    webPc,                    \* where the (single-threaded) HTTP server is
    web_data,                 \* current_measurements of do_GET
    btnPc,                    \* where CalibrationButtonMonitor.run is
    plotPc,                   \* where PlotGenerator.run is
    plot_data,                \* data of generate_plot
    png_file,                 \* data_latest_plot.png: "none", or drawn from the last copy
                              \* ("current") or from an earlier one ("stale")
    new_measurement,
    new_plot,
    force_redraw,
    dispPc,                   \* where EInkDisplay.run is
    disp_notified,            \* the display's wait on display_condition has been notified
    minute_new,               \* datetime.now().minute differs from self.last_minute
    latest_reading,           \* latest_reading of the display's last iteration
    h_signalled,              \* the measurement of the last new_measurement notification
    h_unseen,                 \* a flag was set and notified after the display last began an iteration
    h_batch,                  \* notify() calls that found the display in its current or last wait (2: >= 2)
    h_renders,                \* full recomputations of the display since its last wake
    last_display,             \* self.last_display: the reading of the text last drawn, or none
    minute_shown,             \* the time and date of last_display are still the clock's
    static_drawn,             \* base_image holds the static unit labels
    h_write,                  \* what the display's last step wrote to the panel
    h_shown,                  \* the reading of the text last written to the panel
    h_forced,                 \* force_redraw was consumed since the last text was written
    h_samples,                \* measurements appended by the loop so far
    h_depth,                  \* executions of perform_calibration under way
    h_failed,                 \* a hardware call of the current execution raised
    h_owed,                   \* a trigger arrived with no cycle open and no execution started since
    h_web_idle,               \* no cycle was open when the current request arrived
    h_btn_idle,               \* no cycle was open when the current press was detected
    h_last_cut,               \* cutoff_time of the last load or cleanup
    h_appended,               \* the measurements the loop has inserted so far
    h_persisted,              \* the measurements handed to save_to_csv and written, in order
    h_query,                  \* start_time and end_time of the last GET /history
    data_range,               \* (first_timestamp, last_timestamp) of the last GET /history
    historical_data,          \* load_historical_data of the last GET /history
    lock_owner,               \* lock -> the thread inside its `with` block, or "free"
    lock_prog                 \* thread -> what is left of the handler it is running

timeVars == <<now>>
storeVars == <<csv, measurements, h_samples, h_last_cut, h_appended>>
calVars == <<calibration_event, calibration_in_progress, h_owed>>
loopVars == <<pc, use_hardware, sensor, readings_to_skip, sensor_interval, cal_i,
              reading, sensor_warming_up, h_depth, h_failed>>
webVars == <<webPc, web_data, h_web_idle>>
btnVars == <<btnPc, h_btn_idle>>
plotVars == <<plotPc, plot_data, png_file>>
histVars == <<h_persisted, h_query, data_range, historical_data>>
\* what only the display thread writes
drawVars == <<last_display, minute_shown, static_drawn, h_write,
              h_shown, h_forced>>
dispLocal == <<dispPc, minute_new, latest_reading, h_renders, drawVars>>
dispVars == <<new_measurement, new_plot, force_redraw, dispPc, disp_notified,
              minute_new, latest_reading, h_signalled, h_unseen, h_batch, h_renders,
              drawVars>>

lockVars == <<lock_owner, lock_prog>>

dataVars == <<now, csv, measurements, started, shutdown_event, calibration_event,
          calibration_in_progress, sensor_warming_up, pc, use_hardware, sensor,
          readings_to_skip, sensor_interval, cal_i, reading, webPc, web_data,
          btnPc, plotPc, plot_data, png_file, new_measurement, new_plot,
          force_redraw, dispPc, disp_notified, minute_new, latest_reading,
          h_signalled, h_unseen, h_batch, h_renders, h_samples,
          h_depth, h_failed, h_owed, h_web_idle, h_btn_idle, h_last_cut, h_appended,
          h_persisted, h_query, data_range, historical_data, drawVars>>

vars == <<dataVars, lockVars>>

\* the module-level initial values and the __init__ of every thread
InitWith(logs) ==
    /\ now = StartTime
    /\ csv \in logs
    /\ measurements = <<>>
    /\ started = FALSE
    /\ shutdown_event = FALSE
    /\ calibration_event = FALSE
    /\ calibration_in_progress = FALSE
    /\ sensor_warming_up = TRUE
    /\ pc = "init"
    /\ use_hardware = FALSE
    /\ sensor = FALSE
    /\ readings_to_skip = 0
    /\ sensor_interval = CO2_MEASUREMENT_INTERVAL
    /\ cal_i = 0
    /\ reading = NoReading
    /\ webPc = "idle"
    /\ web_data = <<>>
    /\ btnPc = "idle"
    /\ plotPc = "start"
    /\ plot_data = <<>>
    /\ png_file = "none"
    /\ new_measurement = FALSE
    /\ new_plot = FALSE
    /\ force_redraw = FALSE
    /\ dispPc = "top"
    /\ disp_notified = FALSE
    /\ minute_new = TRUE
    /\ latest_reading = NothingShown
    /\ h_signalled = NoReading
    /\ h_unseen = FALSE
    /\ h_batch = 0
    /\ h_renders = 0
    /\ last_display = NoText
    /\ minute_shown = FALSE
    /\ static_drawn = TRUE
    /\ h_write = "none"
    /\ h_shown = NoText
    /\ h_forced = FALSE
    /\ h_samples = 0
    /\ h_depth = 0
    /\ h_failed = FALSE
    /\ h_owed = FALSE
    /\ h_web_idle = FALSE
    /\ h_btn_idle = FALSE
    /\ h_last_cut = StartTime - HOURS_TO_KEEP
    /\ h_appended = {}
    /\ h_persisted = <<>>
    /\ h_query = <<0, 0>>
    /\ data_range = <<None, None>>
    /\ historical_data = <<>>
    /\ lock_owner = [l \in Locks |-> "free"]
    /\ lock_prog = [t \in Threads |-> <<>>]

Init == InitWith(InitLogs)

\* ----------------------------------------------------- main and the clock
\* main(): measurements = load_recent_measurements(), then the threads start
main_load ==
    /\ ~started
    /\ started' = TRUE
    /\ measurements' = load_recent_measurements(csv, now)
    /\ h_last_cut' = now - HOURS_TO_KEEP
    /\ UNCHANGED <<now, csv, h_samples, h_appended, shutdown_event>>
    /\ UNCHANGED <<calVars, loopVars, webVars, btnVars, plotVars, dispVars>>
    /\ UNCHANGED <<histVars, lockVars>>

\* main(): KeyboardInterrupt, shutdown_event.set()
main_shutdown ==
    /\ started
    /\ ~shutdown_event
    /\ shutdown_event' = TRUE
    /\ UNCHANGED <<now, started>>
    /\ UNCHANGED <<storeVars, calVars, loopVars, webVars, btnVars, plotVars, dispVars>>
    /\ UNCHANGED <<histVars, lockVars>>

\* the image on disk, once a newer copy of the window has been taken
StalePng == IF png_file = "none" THEN "none" ELSE "stale"

\* the process is ended and main() is run again: the data directory and the
\* clock are what is left
main_restart ==
    /\ started
    /\ measurements' = <<>>
    /\ started' = FALSE
    /\ shutdown_event' = FALSE
    /\ calibration_event' = FALSE
    /\ calibration_in_progress' = FALSE
    /\ sensor_warming_up' = TRUE
    /\ pc' = "init"
    /\ use_hardware' = FALSE
    /\ sensor' = FALSE
    /\ readings_to_skip' = 0
    /\ sensor_interval' = CO2_MEASUREMENT_INTERVAL
    /\ cal_i' = 0
    /\ reading' = NoReading
    /\ webPc' = "idle"
    /\ web_data' = <<>>
    /\ btnPc' = "idle"
    /\ plotPc' = "start"
    /\ plot_data' = <<>>
    /\ png_file' = StalePng
    /\ new_measurement' = FALSE
    /\ new_plot' = FALSE
    /\ force_redraw' = FALSE
    /\ dispPc' = "top"
    /\ disp_notified' = FALSE
    /\ minute_new' = TRUE
    /\ latest_reading' = NothingShown
    /\ h_signalled' = NoReading
    /\ h_unseen' = FALSE
    /\ h_batch' = 0
    /\ h_renders' = 0
    /\ last_display' = NoText
    /\ minute_shown' = FALSE
    /\ static_drawn' = TRUE
    /\ h_write' = "none"
    /\ h_shown' = NoText
    /\ h_forced' = FALSE
    /\ h_depth' = 0
    /\ h_failed' = FALSE
    /\ h_owed' = FALSE
    /\ h_web_idle' = FALSE
    /\ h_btn_idle' = FALSE
    /\ h_last_cut' = now - HOURS_TO_KEEP
    /\ h_appended' = {}
    /\ data_range' = <<None, None>>
    /\ historical_data' = <<>>
    /\ UNCHANGED <<now, csv, h_samples, h_persisted, h_query>>
    /\ UNCHANGED lockVars

\* the wall clock moves on (it never goes back)
Tick ==
    /\ started
    /\ \E d \in ClockSteps :
         /\ now + d <= MaxTime
         /\ now' = now + d
    /\ UNCHANGED <<started, shutdown_event>>
    /\ UNCHANGED <<storeVars, calVars, loopVars, webVars, btnVars, plotVars, dispVars>>
    /\ UNCHANGED <<histVars, lockVars>>

\* --------------------------------------------------- the calibration state
CalPcs == {"cal_start", "cal_prepare", "cal_wait", "cal_restore",
           "cal_finally", "cal_notify", "cal_clear"}

\* perform_calibration has been entered and its finally block has not yet
\* cleared the flag
CalRunning == pc \in {"cal_start", "cal_prepare", "cal_wait", "cal_restore", "cal_finally"}

\* a cycle is open: a request is pending (Requested), or the loop is in the
\* procedure or about to clear the request it served
CycleOpen == calibration_event \/ pc \in CalPcs

\* ------------------------------------------------- the display's condition
\* the display is blocked in display_condition.wait
WaitPcs == {"wait_timed", "wait"}

\* a notification that is kept for a wait that has not begun yet
NotifyQueued ==
    /\ disp_notified' = TRUE
    /\ h_batch' = IF dispPc \in WaitPcs /\ h_batch < 2 THEN h_batch + 1 ELSE h_batch

\* display_condition.notify(): wakes the display if it is waiting, and is
\* forgotten if it is not
Notify ==
    /\ disp_notified' = (disp_notified \/ dispPc \in WaitPcs)
    /\ h_batch' = IF dispPc \in WaitPcs /\ h_batch < 2 THEN h_batch + 1 ELSE h_batch

\* ------------------------------------------- CO2Sensor: init and sampling
\* init_sensor: the library is missing or the transceiver cannot be opened
\* (self.sensor stays None), a later call raises (self.sensor is set), or the
\* sensor starts and the warm-up count is set
init_sensor ==
    /\ started
    /\ pc = "init"
    /\ pc' = "loop"
    /\ \/ UNCHANGED <<use_hardware, sensor, readings_to_skip, sensor_interval>>
       \/ /\ sensor' = TRUE
          /\ UNCHANGED <<use_hardware, readings_to_skip, sensor_interval>>
       \/ /\ sensor' = TRUE
          /\ use_hardware' = TRUE
          /\ readings_to_skip' = SENSOR_WARMUP_READINGS
          /\ sensor_interval' = CO2_MEASUREMENT_INTERVAL
    /\ UNCHANGED <<cal_i, reading, sensor_warming_up, h_depth, h_failed>>
    /\ UNCHANGED <<now, started, shutdown_event>>
    /\ UNCHANGED <<storeVars, calVars, webVars, btnVars, plotVars, dispVars>>
    /\ UNCHANGED <<histVars, lockVars>>

\* while not shutdown_event.is_set(): the loop ends
read_co2_exit ==
    /\ pc = "loop"
    /\ shutdown_event
    /\ pc' = "done"
    /\ UNCHANGED <<use_hardware, sensor, readings_to_skip, sensor_interval, cal_i,
                   reading, sensor_warming_up, h_depth, h_failed>>
    /\ UNCHANGED <<now, started, shutdown_event>>
    /\ UNCHANGED <<storeVars, calVars, webVars, btnVars, plotVars, dispVars>>
    /\ UNCHANGED <<histVars, lockVars>>

\* perform_calibration handed to a thread of its own: the loop goes on to its
\* next reading while the procedure runs
read_co2_calibrate_detached ==
    /\ pc = "loop"
    /\ ~shutdown_event
    /\ calibration_event
    /\ h_depth = 0
    /\ pc' = IF use_hardware THEN "hw_read" ELSE "append"
    /\ reading' = Measurement(strftime(now), 400)
    /\ h_depth' = h_depth + 1
    /\ h_failed' = FALSE
    /\ h_owed' = FALSE
    /\ UNCHANGED <<use_hardware, sensor, readings_to_skip, sensor_interval, cal_i,
                   sensor_warming_up>>
    /\ UNCHANGED <<calibration_event, calibration_in_progress>>
    /\ UNCHANGED <<now, started, shutdown_event>>
    /\ UNCHANGED <<storeVars, webVars, btnVars, plotVars, dispVars>>
    /\ UNCHANGED <<histVars, lockVars>>

\* if calibration_event.is_set(): self.perform_calibration()
read_co2_calibrate ==
    /\ pc = "loop"
    /\ ~shutdown_event
    /\ calibration_event
    /\ pc' = "cal_start"
    /\ h_depth' = h_depth + 1
    /\ h_failed' = FALSE
    /\ h_owed' = FALSE
    /\ UNCHANGED <<use_hardware, sensor, readings_to_skip, sensor_interval, cal_i,
                   reading, sensor_warming_up>>
    /\ UNCHANGED <<calibration_event, calibration_in_progress>>
    /\ UNCHANGED <<now, started, shutdown_event>>
    /\ UNCHANGED <<storeVars, webVars, btnVars, plotVars, dispVars>>
    /\ UNCHANGED <<histVars, lockVars>>

\* hardware mode: time.sleep(CO2_MEASUREMENT_INTERVAL), then the blocking read
read_co2_hw_sleep(max_samples) ==
    /\ pc = "loop"
    /\ ~shutdown_event
    /\ ~calibration_event
    /\ use_hardware
    /\ h_samples < max_samples
    /\ pc' = "hw_read"
    /\ UNCHANGED <<use_hardware, sensor, readings_to_skip, sensor_interval, cal_i,
                   reading, sensor_warming_up, h_depth, h_failed>>
    /\ UNCHANGED <<now, started, shutdown_event>>
    /\ UNCHANGED <<storeVars, calVars, webVars, btnVars, plotVars, dispVars>>
    /\ UNCHANGED <<histVars, lockVars>>

\* the last reading of the warm-up is kept instead of skipped
read_co2_hw_read_short_warmup(values) ==
    /\ pc = "hw_read"
    /\ \E co2_value \in values :
         IF readings_to_skip > 1
         THEN /\ readings_to_skip' = readings_to_skip - 1
              /\ pc' = "loop"
              /\ UNCHANGED <<reading, sensor_warming_up>>
         ELSE /\ sensor_warming_up' = FALSE
              /\ reading' = Measurement(strftime(now), co2_value)
              /\ pc' = "append"
              /\ UNCHANGED readings_to_skip
    /\ UNCHANGED <<use_hardware, sensor, sensor_interval, cal_i, h_depth, h_failed>>
    /\ UNCHANGED <<now, started, shutdown_event>>
    /\ UNCHANGED <<storeVars, calVars, webVars, btnVars, plotVars, dispVars>>
    /\ UNCHANGED <<histVars, lockVars>>

\* blocking_read_measurement_data() returns: the reading is skipped while
\* readings_to_skip > 0, else the warm-up flag is cleared and it is kept
read_co2_hw_read(values) ==
    /\ pc = "hw_read"
    /\ \E co2_value \in values :
         IF readings_to_skip > 0
         THEN /\ readings_to_skip' = readings_to_skip - 1
              /\ pc' = "loop"
              /\ UNCHANGED <<reading, sensor_warming_up>>
         ELSE /\ sensor_warming_up' = FALSE
              /\ reading' = Measurement(strftime(now), co2_value)
              /\ pc' = "append"
              /\ UNCHANGED readings_to_skip
    /\ UNCHANGED <<use_hardware, sensor, sensor_interval, cal_i, h_depth, h_failed>>
    /\ UNCHANGED <<now, started, shutdown_event>>
    /\ UNCHANGED <<storeVars, calVars, webVars, btnVars, plotVars, dispVars>>
    /\ UNCHANGED <<histVars, lockVars>>

\* blocking_read_measurement_data() raises
read_co2_hw_fail ==
    /\ pc = "hw_read"
    /\ pc' = "except"
    /\ UNCHANGED <<use_hardware, sensor, readings_to_skip, sensor_interval, cal_i,
                   reading, sensor_warming_up, h_depth, h_failed>>
    /\ UNCHANGED <<now, started, shutdown_event>>
    /\ UNCHANGED <<storeVars, calVars, webVars, btnVars, plotVars, dispVars>>
    /\ UNCHANGED <<histVars, lockVars>>

\* the exception of the read ends the loop
read_co2_except_fatal ==
    /\ pc = "except"
    /\ pc' = "done"
    /\ UNCHANGED <<use_hardware, sensor, readings_to_skip, sensor_interval, cal_i,
                   reading, sensor_warming_up, h_depth, h_failed>>
    /\ UNCHANGED <<now, started, shutdown_event>>
    /\ UNCHANGED <<storeVars, calVars, webVars, btnVars, plotVars, dispVars>>
    /\ UNCHANGED <<histVars, lockVars>>

\* except Exception: fall back to simulation, time.sleep(5)
read_co2_except ==
    /\ pc = "except"
    /\ use_hardware' = FALSE
    /\ pc' = "loop"
    /\ UNCHANGED <<sensor, readings_to_skip, sensor_interval, cal_i,
                   reading, sensor_warming_up, h_depth, h_failed>>
    /\ UNCHANGED <<now, started, shutdown_event>>
    /\ UNCHANGED <<storeVars, calVars, webVars, btnVars, plotVars, dispVars>>
    /\ UNCHANGED <<histVars, lockVars>>

\* simulation: the values and the timestamp are taken first, the sleep follows
read_co2_simulate(values, max_samples) ==
    /\ pc = "loop"
    /\ ~shutdown_event
    /\ ~calibration_event
    /\ ~use_hardware
    /\ h_samples < max_samples
    /\ \E co2_value \in values : reading' = Measurement(strftime(now), co2_value)
    /\ pc' = "sim_sleep"
    /\ UNCHANGED <<use_hardware, sensor, readings_to_skip, sensor_interval, cal_i,
                   sensor_warming_up, h_depth, h_failed>>
    /\ UNCHANGED <<now, started, shutdown_event>>
    /\ UNCHANGED <<storeVars, calVars, webVars, btnVars, plotVars, dispVars>>
    /\ UNCHANGED <<histVars, lockVars>>

\* time.sleep(random_interval) returns
read_co2_sim_wake ==
    /\ pc = "sim_sleep"
    /\ pc' = "append"
    /\ UNCHANGED <<use_hardware, sensor, readings_to_skip, sensor_interval, cal_i,
                   reading, sensor_warming_up, h_depth, h_failed>>
    /\ UNCHANGED <<now, started, shutdown_event>>
    /\ UNCHANGED <<storeVars, calVars, webVars, btnVars, plotVars, dispVars>>
    /\ UNCHANGED <<histVars, lockVars>>

\* the iteration goes on without the insertion
read_co2_append_dropped ==
    /\ pc = "append"
    /\ pc' = "cleanup"
    /\ UNCHANGED <<use_hardware, sensor, readings_to_skip, sensor_interval, cal_i,
                   reading, sensor_warming_up, h_depth, h_failed>>
    /\ UNCHANGED <<now, started, shutdown_event>>
    /\ UNCHANGED <<storeVars, calVars, webVars, btnVars, plotVars, dispVars>>
    /\ UNCHANGED <<histVars, lockVars>>

\* with measurement_lock: measurements.append(...)
read_co2_append ==
    /\ pc = "append"
    /\ measurements' = Append(measurements, reading)
    /\ h_appended' = h_appended \cup {reading}
    /\ pc' = "cleanup"
    /\ UNCHANGED <<csv, h_samples, h_last_cut>>
    /\ UNCHANGED <<use_hardware, sensor, readings_to_skip, sensor_interval, cal_i,
                   reading, sensor_warming_up, h_depth, h_failed>>
    /\ UNCHANGED <<now, started, shutdown_event>>
    /\ UNCHANGED <<calVars, webVars, btnVars, plotVars, dispVars>>
    /\ UNCHANGED <<histVars, lockVars>>

\* cleanup_old_measurements(): the cutoff from the clock, the filter under the lock
read_co2_cleanup ==
    /\ pc = "cleanup"
    /\ measurements' = cleanup_old_measurements(measurements, now)
    /\ h_last_cut' = now - HOURS_TO_KEEP
    /\ pc' = "save"
    /\ UNCHANGED <<csv, h_samples, h_appended>>
    /\ UNCHANGED <<use_hardware, sensor, readings_to_skip, sensor_interval, cal_i,
                   reading, sensor_warming_up, h_depth, h_failed>>
    /\ UNCHANGED <<now, started, shutdown_event>>
    /\ UNCHANGED <<calVars, webVars, btnVars, plotVars, dispVars>>
    /\ UNCHANGED <<histVars, lockVars>>

\* the record is kept back to be written with a later one
read_co2_save_deferred ==
    /\ pc = "save"
    /\ h_samples' = h_samples + 1
    /\ pc' = "notify"
    /\ UNCHANGED <<csv, measurements, h_last_cut, h_appended>>
    /\ UNCHANGED <<use_hardware, sensor, readings_to_skip, sensor_interval, cal_i,
                   reading, sensor_warming_up, h_depth, h_failed>>
    /\ UNCHANGED <<now, started, shutdown_event>>
    /\ UNCHANGED <<calVars, webVars, btnVars, plotVars, dispVars>>
    /\ UNCHANGED <<histVars, lockVars>>

\* save_to_csv(timestamp, co2_value, temperature, humidity)
read_co2_save ==
    /\ pc = "save"
    /\ csv' = save_to_csv(csv, reading)
    /\ h_samples' = h_samples + 1
    /\ pc' = "notify"
    /\ UNCHANGED <<measurements, h_last_cut, h_appended>>
    /\ UNCHANGED <<use_hardware, sensor, readings_to_skip, sensor_interval, cal_i,
                   reading, sensor_warming_up, h_depth, h_failed>>
    /\ UNCHANGED <<now, started, shutdown_event>>
    /\ UNCHANGED <<calVars, webVars, btnVars, plotVars, dispVars>>
    /\ h_persisted' = Append(h_persisted, reading)
    /\ UNCHANGED <<h_query, data_range, historical_data>>
    /\ UNCHANGED lockVars

\* the failure of the write leaves save_to_csv and ends the iteration in the
\* handler of read_co2
read_co2_save_fail_raised ==
    /\ pc = "save"
    /\ h_samples' = h_samples + 1
    /\ pc' = "except"
    /\ UNCHANGED <<csv, measurements, h_last_cut, h_appended>>
    /\ UNCHANGED <<use_hardware, sensor, readings_to_skip, sensor_interval, cal_i,
                   reading, sensor_warming_up, h_depth, h_failed>>
    /\ UNCHANGED <<now, started, shutdown_event>>
    /\ UNCHANGED <<calVars, webVars, btnVars, plotVars, dispVars>>
    /\ UNCHANGED <<histVars, lockVars>>

\* save_to_csv: the directory or the file cannot be written; except Exception
\* inside save_to_csv prints the error and the function returns
read_co2_save_fail ==
    /\ pc = "save"
    /\ h_samples' = h_samples + 1
    /\ pc' = "notify"
    /\ UNCHANGED <<csv, measurements, h_last_cut, h_appended>>
    /\ UNCHANGED <<use_hardware, sensor, readings_to_skip, sensor_interval, cal_i,
                   reading, sensor_warming_up, h_depth, h_failed>>
    /\ UNCHANGED <<now, started, shutdown_event>>
    /\ UNCHANGED <<calVars, webVars, btnVars, plotVars, dispVars>>
    /\ UNCHANGED <<histVars, lockVars>>

\* with display_condition: new_measurement = True; notify()
read_co2_notify ==
    /\ pc = "notify"
    /\ new_measurement' = TRUE
    /\ Notify
    /\ h_signalled' = reading
    /\ h_unseen' = TRUE
    /\ reading' = NoReading
    /\ pc' = "loop"
    /\ UNCHANGED <<new_plot, force_redraw, dispLocal>>
    /\ UNCHANGED <<use_hardware, sensor, readings_to_skip, sensor_interval, cal_i,
                   sensor_warming_up, h_depth, h_failed>>
    /\ UNCHANGED <<now, started, shutdown_event>>
    /\ UNCHANGED <<storeVars, calVars, webVars, btnVars, plotVars>>
    /\ UNCHANGED <<histVars, lockVars>>

\* ------------------------------------------------- perform_calibration
loopRest == <<use_hardware, sensor, cal_i, reading>>

\* the procedure goes on to the sensor's commands whatever the mode
perform_calibration_check_always_hardware ==
    /\ pc = "cal_start"
    /\ pc' = "cal_prepare"
    /\ UNCHANGED <<loopRest, readings_to_skip, sensor_interval, sensor_warming_up,
                   h_depth, h_failed>>
    /\ UNCHANGED <<now, started, shutdown_event>>
    /\ UNCHANGED <<storeVars, calVars, webVars, btnVars, plotVars, dispVars>>
    /\ UNCHANGED <<histVars, lockVars>>

\* if not self.use_hardware or not self.sensor: return (through finally)
perform_calibration_check ==
    /\ pc = "cal_start"
    /\ pc' = IF ~use_hardware \/ ~sensor THEN "cal_finally" ELSE "cal_prepare"
    /\ UNCHANGED <<loopRest, readings_to_skip, sensor_interval, sensor_warming_up,
                   h_depth, h_failed>>
    /\ UNCHANGED <<now, started, shutdown_event>>
    /\ UNCHANGED <<storeVars, calVars, webVars, btnVars, plotVars, dispVars>>
    /\ UNCHANGED <<histVars, lockVars>>

\* stop_periodic_measurement(), set_measurement_interval(2),
\* start_periodic_measurement(0): all three succeed
perform_calibration_prepare ==
    /\ pc = "cal_prepare"
    /\ sensor_interval' = CalibrationInterval
    /\ cal_i' = 0
    /\ pc' = "cal_wait"
    /\ UNCHANGED <<use_hardware, sensor, reading, readings_to_skip,
                   sensor_warming_up, h_depth, h_failed>>
    /\ UNCHANGED <<now, started, shutdown_event>>
    /\ UNCHANGED <<storeVars, calVars, webVars, btnVars, plotVars, dispVars>>
    /\ UNCHANGED <<histVars, lockVars>>

\* one of the three raises: the interval is the old one or already 2
perform_calibration_prepare_fail ==
    /\ pc = "cal_prepare"
    /\ sensor_interval' \in {sensor_interval, CalibrationInterval}
    /\ h_failed' = TRUE
    /\ pc' = "cal_finally"
    /\ UNCHANGED <<loopRest, readings_to_skip, sensor_warming_up, h_depth>>
    /\ UNCHANGED <<now, started, shutdown_event>>
    /\ UNCHANGED <<storeVars, calVars, webVars, btnVars, plotVars, dispVars>>
    /\ UNCHANGED <<histVars, lockVars>>

\* for i in range(120): shutdown not set, time.sleep(1)
perform_calibration_wait ==
    /\ pc = "cal_wait"
    /\ cal_i < StabilizeSteps
    /\ ~shutdown_event
    /\ cal_i' = cal_i + 1
    /\ UNCHANGED <<pc, use_hardware, sensor, reading, readings_to_skip,
                   sensor_interval, sensor_warming_up, h_depth, h_failed>>
    /\ UNCHANGED <<now, started, shutdown_event>>
    /\ UNCHANGED <<storeVars, calVars, webVars, btnVars, plotVars, dispVars>>
    /\ UNCHANGED <<histVars, lockVars>>

\* if shutdown_event.is_set(): return (through finally)
perform_calibration_wait_shutdown ==
    /\ pc = "cal_wait"
    /\ cal_i < StabilizeSteps
    /\ shutdown_event
    /\ pc' = "cal_finally"
    /\ UNCHANGED <<loopRest, readings_to_skip, sensor_interval, sensor_warming_up,
                   h_depth, h_failed>>
    /\ UNCHANGED <<now, started, shutdown_event>>
    /\ UNCHANGED <<storeVars, calVars, webVars, btnVars, plotVars, dispVars>>
    /\ UNCHANGED <<histVars, lockVars>>

\* force_recalibration(CALIBRATION_REFERENCE_PPM) succeeds
perform_calibration_force ==
    /\ pc = "cal_wait"
    /\ cal_i = StabilizeSteps
    /\ pc' = "cal_restore"
    /\ UNCHANGED <<loopRest, readings_to_skip, sensor_interval, sensor_warming_up,
                   h_depth, h_failed>>
    /\ UNCHANGED <<now, started, shutdown_event>>
    /\ UNCHANGED <<storeVars, calVars, webVars, btnVars, plotVars, dispVars>>
    /\ UNCHANGED <<histVars, lockVars>>

\* force_recalibration raises: except, then finally
perform_calibration_force_fail ==
    /\ pc = "cal_wait"
    /\ cal_i = StabilizeSteps
    /\ h_failed' = TRUE
    /\ pc' = "cal_finally"
    /\ UNCHANGED <<loopRest, readings_to_skip, sensor_interval, sensor_warming_up, h_depth>>
    /\ UNCHANGED <<now, started, shutdown_event>>
    /\ UNCHANGED <<storeVars, calVars, webVars, btnVars, plotVars, dispVars>>
    /\ UNCHANGED <<histVars, lockVars>>

\* the normal interval is restored and the warm-up is left as it was
perform_calibration_restore_no_warmup ==
    /\ pc = "cal_restore"
    /\ sensor_interval' = CO2_MEASUREMENT_INTERVAL
    /\ pc' = "cal_finally"
    /\ UNCHANGED <<loopRest, readings_to_skip, sensor_warming_up, h_depth, h_failed>>
    /\ UNCHANGED <<now, started, shutdown_event>>
    /\ UNCHANGED <<storeVars, calVars, webVars, btnVars, plotVars, dispVars>>
    /\ UNCHANGED <<histVars, lockVars>>

\* the normal interval is restored, then readings_to_skip and the warm-up flag
perform_calibration_restore ==
    /\ pc = "cal_restore"
    /\ sensor_interval' = CO2_MEASUREMENT_INTERVAL
    /\ readings_to_skip' = SENSOR_WARMUP_READINGS
    /\ sensor_warming_up' = TRUE
    /\ pc' = "cal_finally"
    /\ UNCHANGED <<loopRest, h_depth, h_failed>>
    /\ UNCHANGED <<now, started, shutdown_event>>
    /\ UNCHANGED <<storeVars, calVars, webVars, btnVars, plotVars, dispVars>>
    /\ UNCHANGED <<histVars, lockVars>>

\* stop/set_measurement_interval/start raises while restoring
perform_calibration_restore_fail ==
    /\ pc = "cal_restore"
    /\ sensor_interval' \in {sensor_interval, CO2_MEASUREMENT_INTERVAL}
    /\ h_failed' = TRUE
    /\ pc' = "cal_finally"
    /\ UNCHANGED <<loopRest, readings_to_skip, sensor_warming_up, h_depth>>
    /\ UNCHANGED <<now, started, shutdown_event>>
    /\ UNCHANGED <<storeVars, calVars, webVars, btnVars, plotVars, dispVars>>
    /\ UNCHANGED <<histVars, lockVars>>

\* finally: with calibration_lock: calibration_in_progress = False
perform_calibration_finally ==
    /\ pc = "cal_finally"
    /\ calibration_in_progress' = FALSE
    /\ pc' = "cal_notify"
    /\ UNCHANGED <<calibration_event, h_owed>>
    /\ UNCHANGED <<loopRest, readings_to_skip, sensor_interval, sensor_warming_up,
                   h_depth, h_failed>>
    /\ UNCHANGED <<now, started, shutdown_event>>
    /\ UNCHANGED <<storeVars, webVars, btnVars, plotVars, dispVars>>
    /\ UNCHANGED <<histVars, lockVars>>

\* finally: with display_condition: force_redraw = True; notify(); return
perform_calibration_notify ==
    /\ pc = "cal_notify"
    /\ force_redraw' = TRUE
    /\ Notify
    /\ h_unseen' = TRUE
    /\ h_depth' = h_depth - 1
    /\ pc' = "cal_clear"
    /\ UNCHANGED <<new_measurement, new_plot, h_signalled, dispLocal>>
    /\ UNCHANGED <<loopRest, readings_to_skip, sensor_interval, sensor_warming_up, h_failed>>
    /\ UNCHANGED <<now, started, shutdown_event>>
    /\ UNCHANGED <<storeVars, calVars, webVars, btnVars, plotVars>>
    /\ UNCHANGED <<histVars, lockVars>>

\* read_co2: calibration_event.clear(); continue
read_co2_clear ==
    /\ pc = "cal_clear"
    /\ calibration_event' = FALSE
    /\ pc' = "loop"
    /\ h_failed' = FALSE
    /\ UNCHANGED <<calibration_in_progress, h_owed>>
    /\ UNCHANGED <<loopRest, readings_to_skip, sensor_interval, sensor_warming_up, h_depth>>
    /\ UNCHANGED <<now, started, shutdown_event>>
    /\ UNCHANGED <<storeVars, webVars, btnVars, plotVars, dispVars>>
    /\ UNCHANGED <<histVars, lockVars>>

\* ------------------------------------------------ the web request handler
\* GET /calibrate: with calibration_lock: calibration_in_progress = True
web_calibrate ==
    /\ started
    /\ ~shutdown_event
    /\ webPc = "idle"
    /\ calibration_in_progress' = TRUE
    /\ webPc' = "cal_set_event"
    /\ h_web_idle' = ~CycleOpen
    /\ h_owed' = (h_owed \/ ~CycleOpen)
    /\ UNCHANGED <<calibration_event, web_data>>
    /\ UNCHANGED <<now, started, shutdown_event>>
    /\ UNCHANGED <<storeVars, loopVars, btnVars, plotVars, dispVars>>
    /\ UNCHANGED <<histVars, lockVars>>

\* calibration_event.set()
web_calibrate_set_event ==
    /\ webPc = "cal_set_event"
    /\ calibration_event' = TRUE
    /\ webPc' = "cal_notify"
    /\ UNCHANGED <<calibration_in_progress, h_owed, web_data, h_web_idle>>
    /\ UNCHANGED <<now, started, shutdown_event>>
    /\ UNCHANGED <<storeVars, loopVars, btnVars, plotVars, dispVars>>
    /\ UNCHANGED <<histVars, lockVars>>

\* display_condition.notify(), then the redirect to the main page
web_calibrate_notify ==
    /\ webPc = "cal_notify"
    /\ webPc' = "idle"
    /\ h_web_idle' = FALSE
    /\ Notify
    /\ UNCHANGED web_data
    /\ UNCHANGED <<new_measurement, new_plot, force_redraw, h_signalled, h_unseen, dispLocal>>
    /\ UNCHANGED <<now, started, shutdown_event>>
    /\ UNCHANGED <<storeVars, calVars, loopVars, btnVars, plotVars>>
    /\ UNCHANGED <<histVars, lockVars>>

\* the start and end of a GET /history: the default (the last 12 hours), or
\* from the query string the whole of the days the model has, or a start that
\* is after the end
HistoryQueries(t) == { <<t - 12, t>>, <<0, MaxTime>>, <<t, t - 12>> }

\* GET /history: get_data_range(), and when both bounds are there
\* generate_history_plot(start_time, end_time) loads the data of the range
web_history ==
    /\ started
    /\ ~shutdown_event
    /\ webPc = "idle"
    /\ data_range' = get_data_range(csv)
    /\ \E q \in HistoryQueries(now) :
         /\ h_query' = q
         /\ historical_data' =
               IF data_range'[1] # None /\ data_range'[2] # None
               THEN load_historical_data(csv, q[1], q[2])
               ELSE <<>>
    /\ UNCHANGED h_persisted
    /\ UNCHANGED lockVars
    /\ UNCHANGED <<now, started, shutdown_event>>
    /\ UNCHANGED <<storeVars, calVars, loopVars, webVars, btnVars, plotVars, dispVars>>

\* GET /: with measurement_lock: current_measurements = measurements.copy()
web_main_page ==
    /\ started
    /\ ~shutdown_event
    /\ webPc = "idle"
    /\ web_data' = measurements
    /\ webPc' = "main_render"
    /\ UNCHANGED h_web_idle
    /\ UNCHANGED <<now, started, shutdown_event>>
    /\ UNCHANGED <<storeVars, calVars, loopVars, btnVars, plotVars, dispVars>>
    /\ UNCHANGED <<histVars, lockVars>>

\* the calibration flag is read and the page is written from the copy
web_main_render ==
    /\ webPc = "main_render"
    /\ web_data' = <<>>
    /\ webPc' = "idle"
    /\ UNCHANGED h_web_idle
    /\ UNCHANGED <<now, started, shutdown_event>>
    /\ UNCHANGED <<storeVars, calVars, loopVars, btnVars, plotVars, dispVars>>
    /\ UNCHANGED <<histVars, lockVars>>

\* ---------------------------------------------- CalibrationButtonMonitor
\* a 3-second press: "with calibration_lock: calibration_in_progress = True"
\* binds a name local to run(), which has no global statement: the module's
\* flag keeps its value
button_press ==
    /\ started
    /\ ~shutdown_event
    /\ btnPc = "idle"
    /\ btnPc' = "set_event"
    /\ h_btn_idle' = ~CycleOpen
    /\ h_owed' = (h_owed \/ ~CycleOpen)
    /\ UNCHANGED <<calibration_event, calibration_in_progress>>
    /\ UNCHANGED <<now, started, shutdown_event>>
    /\ UNCHANGED <<storeVars, loopVars, webVars, plotVars, dispVars>>
    /\ UNCHANGED <<histVars, lockVars>>

\* the press answered without calibration_event.set()
button_set_event_forgotten ==
    /\ btnPc = "set_event"
    /\ btnPc' = "notify"
    /\ UNCHANGED h_btn_idle
    /\ UNCHANGED <<now, started, shutdown_event>>
    /\ UNCHANGED <<storeVars, calVars, loopVars, webVars, plotVars, dispVars>>
    /\ UNCHANGED <<histVars, lockVars>>

\* calibration_event.set()
button_set_event ==
    /\ btnPc = "set_event"
    /\ calibration_event' = TRUE
    /\ btnPc' = "notify"
    /\ UNCHANGED <<calibration_in_progress, h_owed, h_btn_idle>>
    /\ UNCHANGED <<now, started, shutdown_event>>
    /\ UNCHANGED <<storeVars, loopVars, webVars, plotVars, dispVars>>
    /\ UNCHANGED <<histVars, lockVars>>

\* display_condition.notify(), then the wait for the release of the button
button_release ==
    /\ btnPc = "notify"
    /\ btnPc' = "idle"
    /\ h_btn_idle' = FALSE
    /\ Notify
    /\ UNCHANGED <<new_measurement, new_plot, force_redraw, h_signalled, h_unseen, dispLocal>>
    /\ UNCHANGED <<now, started, shutdown_event>>
    /\ UNCHANGED <<storeVars, calVars, loopVars, webVars, plotVars>>
    /\ UNCHANGED <<histVars, lockVars>>

\* ------------------------------------------------------- PlotGenerator
\* generate_plot(): with measurement_lock: data = measurements.copy().
\* The first call follows time.sleep(5); the later ones follow a
\* shutdown_event.wait(timeout) that timed out
generate_plot_copy ==
    /\ started
    /\ \/ plotPc = "start"
       \/ plotPc = "wait" /\ ~shutdown_event
    /\ plot_data' = measurements
    /\ png_file' = StalePng
    /\ plotPc' = "render"
    /\ UNCHANGED <<now, started, shutdown_event>>
    /\ UNCHANGED <<storeVars, calVars, loopVars, webVars, btnVars, dispVars>>
    /\ UNCHANGED <<histVars, lockVars>>

\* the rendering raises and generate_plot prints the error: no image is
\* written; with display_condition: new_plot = True; notify()
plot_notify_render_fail ==
    /\ plotPc = "render"
    /\ plot_data # <<>>
    /\ plot_data' = <<>>
    /\ new_plot' = TRUE
    /\ Notify
    /\ h_unseen' = TRUE
    /\ plotPc' = "wait"
    /\ UNCHANGED png_file
    /\ UNCHANGED <<new_measurement, force_redraw, h_signalled, dispLocal>>
    /\ UNCHANGED <<now, started, shutdown_event>>
    /\ UNCHANGED <<storeVars, calVars, loopVars, webVars, btnVars>>
    /\ UNCHANGED <<histVars, lockVars>>

\* generate_plot returns at once when data is empty ("No data to plot"), else
\* the images are written; with display_condition: new_plot = True; notify()
plot_notify ==
    /\ plotPc = "render"
    /\ png_file' = IF plot_data = <<>> THEN png_file ELSE "current"
    /\ plot_data' = <<>>
    /\ new_plot' = TRUE
    /\ Notify
    /\ h_unseen' = TRUE
    /\ plotPc' = "wait"
    /\ UNCHANGED <<new_measurement, force_redraw, h_signalled, dispLocal>>
    /\ UNCHANGED <<now, started, shutdown_event>>
    /\ UNCHANGED <<storeVars, calVars, loopVars, webVars, btnVars>>
    /\ UNCHANGED <<histVars, lockVars>>

\* shutdown_event.wait(...) returns True: break
plot_exit ==
    /\ plotPc = "wait"
    /\ shutdown_event
    /\ plotPc' = "done"
    /\ UNCHANGED <<plot_data, png_file>>
    /\ UNCHANGED <<now, started, shutdown_event>>
    /\ UNCHANGED <<storeVars, calVars, loopVars, webVars, btnVars, dispVars>>
    /\ UNCHANGED <<histVars, lockVars>>

\* --------------------------------------------------------- EInkDisplay
dispFlags == <<new_measurement, new_plot, force_redraw>>
allButDisplay == <<now, started, shutdown_event, storeVars, calVars, loopVars, webVars,
                   btnVars, plotVars>>

\* the minute of the wall clock changes
MinuteTick ==
    /\ started
    /\ ~minute_new \/ minute_shown
    /\ minute_new' = TRUE
    /\ minute_shown' = FALSE
    /\ UNCHANGED <<dispFlags, dispPc, disp_notified, latest_reading, h_signalled,
                   h_unseen, h_batch, h_renders>>
    /\ UNCHANGED <<last_display, static_drawn, h_write, h_shown, h_forced>>
    /\ UNCHANGED allButDisplay
    /\ UNCHANGED <<histVars, lockVars>>

\* while not shutdown_event.is_set(): with calibration_lock: the calibration
\* flag is copied
display_begin ==
    /\ started
    /\ dispPc = "top"
    /\ ~shutdown_event
    /\ dispPc' = IF calibration_in_progress THEN "force_calibrating" ELSE "force_idle"
    /\ h_unseen' = FALSE
    /\ UNCHANGED <<dispFlags, disp_notified, minute_new, latest_reading,
                   h_signalled, h_batch, h_renders, drawVars>>
    /\ UNCHANGED allButDisplay
    /\ UNCHANGED <<histVars, lockVars>>

\* the loop ends
display_exit ==
    /\ started
    /\ dispPc = "top"
    /\ shutdown_event
    /\ dispPc' = "done"
    /\ UNCHANGED <<dispFlags, disp_notified, minute_new, latest_reading, h_signalled,
                   h_unseen, h_batch, h_renders, drawVars>>
    /\ UNCHANGED allButDisplay
    /\ UNCHANGED <<histVars, lockVars>>

\* the display's copy of calibration_in_progress, held in the position
is_calibrating == dispPc = "force_calibrating"

\* if self.force_redraw: the static elements are drawn, the flag is cleared and
\* last_display forgotten; if is_calibrating: the lower part of the frame is
\* cleared and the calibration message drawn over it and written to the panel
display_force_redraw ==
    /\ dispPc \in {"force_calibrating", "force_idle"}
    /\ force_redraw' = FALSE
    /\ last_display' = IF force_redraw THEN NoText ELSE last_display
    /\ h_forced' = (h_forced \/ force_redraw)
    /\ static_drawn' = IF is_calibrating THEN FALSE
                       ELSE IF force_redraw THEN TRUE
                       ELSE static_drawn
    /\ h_write' = IF is_calibrating THEN "message" ELSE "none"
    /\ dispPc' = IF is_calibrating THEN "cal_sleep" ELSE "render"
    /\ h_unseen' = FALSE
    /\ UNCHANGED <<new_measurement, new_plot, disp_notified, minute_new, latest_reading,
                   h_signalled, h_batch, h_renders>>
    /\ UNCHANGED <<minute_shown, h_shown>>
    /\ UNCHANGED allButDisplay
    /\ UNCHANGED <<histVars, lockVars>>

\* time.sleep(5); continue
display_cal_sleep ==
    /\ dispPc = "cal_sleep"
    /\ dispPc' = "top"
    /\ h_write' = "none"
    /\ UNCHANGED <<dispFlags, disp_notified, minute_new, latest_reading, h_signalled,
                   h_unseen, h_batch, h_renders>>
    /\ UNCHANGED <<last_display, minute_shown, static_drawn, h_shown, h_forced>>
    /\ UNCHANGED allButDisplay
    /\ UNCHANGED <<histVars, lockVars>>

\* Image.open(png_path) and paste: not without the file; it may raise while
\* generate_plot is writing the file
PasteOutcomes ==
    IF png_file = "none" THEN {FALSE}
    ELSE IF plotPc = "render" THEN BOOLEAN
    ELSE {TRUE}

\* latest_reading under measurement_lock: "---", "N/A" or the last value
LatestReading ==
    IF sensor_warming_up THEN Shown("---", NoReading)
    ELSE IF measurements = <<>> THEN Shown("N/A", NoReading)
    ELSE Shown("value", measurements[Len(measurements)])

\* display_text != self.last_display, for the text made of the clock's time and
\* date and of the reading r
TextChanged(r) ==
    last_display = NoText \/ ~minute_shown \/ last_display # DisplayText(r)

\* the text is written every time, changed or not
display_render_always ==
    /\ dispPc = "render"
    /\ latest_reading' = LatestReading
    /\ \E pasted \in PasteOutcomes : new_plot' = (new_plot /\ ~pasted)
    /\ last_display' = DisplayText(LatestReading)
    /\ minute_shown' = TRUE
    /\ h_write' = "text"
    /\ h_shown' = DisplayText(LatestReading)
    /\ h_forced' = FALSE
    /\ h_renders' = IF h_renders < 2 THEN h_renders + 1 ELSE h_renders
    /\ dispPc' = "check"
    /\ h_unseen' = force_redraw
    /\ UNCHANGED <<new_measurement, force_redraw, disp_notified, minute_new, h_signalled,
                   h_batch>>
    /\ UNCHANGED static_drawn
    /\ UNCHANGED allButDisplay
    /\ UNCHANGED <<histVars, lockVars>>

\* the latest reading is taken under measurement_lock and the text computed;
\* when it differs from last_display the plot image is pasted if new_plot is set
\* and the image loads, new_plot is cleared after the paste, the dynamic areas
\* are drawn and written to the panel, and last_display is set
display_render ==
    /\ dispPc = "render"
    /\ latest_reading' = LatestReading
    /\ IF TextChanged(LatestReading)
       THEN /\ \E pasted \in PasteOutcomes : new_plot' = (new_plot /\ ~pasted)
            /\ last_display' = DisplayText(LatestReading)
            /\ minute_shown' = TRUE
            /\ h_write' = "text"
            /\ h_shown' = DisplayText(LatestReading)
            /\ h_forced' = FALSE
       ELSE /\ h_write' = "none"
            /\ UNCHANGED <<new_plot, last_display, minute_shown, h_shown, h_forced>>
    /\ h_renders' = IF h_renders < 2 THEN h_renders + 1 ELSE h_renders
    /\ dispPc' = "check"
    /\ h_unseen' = force_redraw
    /\ UNCHANGED <<new_measurement, force_redraw, disp_notified, minute_new, h_signalled,
                   h_batch>>
    /\ UNCHANGED static_drawn
    /\ UNCHANGED allButDisplay
    /\ UNCHANGED <<histVars, lockVars>>

\* if current_minute != self.last_minute or self.new_measurement: the flag is
\* cleared, last_minute is set and the wait will have a timeout; else it has none
display_check ==
    /\ dispPc = "check"
    /\ IF minute_new \/ new_measurement
       THEN /\ new_measurement' = FALSE
            /\ minute_new' = FALSE
            /\ dispPc' = "enter_timed"
       ELSE /\ dispPc' = "enter_wait"
            /\ UNCHANGED <<new_measurement, minute_new>>
    /\ h_write' = "none"
    /\ UNCHANGED <<new_plot, force_redraw, disp_notified, latest_reading, h_signalled,
                   h_unseen, h_batch, h_renders>>
    /\ UNCHANGED <<last_display, minute_shown, static_drawn, h_shown, h_forced>>
    /\ UNCHANGED allButDisplay
    /\ UNCHANGED <<histVars, lockVars>>

\* with self.display_condition: the display becomes a waiter
display_enter_wait ==
    /\ dispPc \in {"enter_timed", "enter_wait"}
    /\ dispPc' = IF dispPc = "enter_timed" THEN "wait_timed" ELSE "wait"
    /\ h_batch' = 0
    /\ UNCHANGED <<dispFlags, disp_notified, minute_new, latest_reading, h_signalled,
                   h_unseen, h_renders, drawVars>>
    /\ UNCHANGED allButDisplay
    /\ UNCHANGED <<histVars, lockVars>>

\* wait(...) returns because of a notify()
display_wake_notified ==
    /\ dispPc \in WaitPcs
    /\ disp_notified
    /\ disp_notified' = FALSE
    /\ dispPc' = "top"
    /\ h_renders' = 0
    /\ UNCHANGED <<dispFlags, minute_new, latest_reading, h_signalled, h_unseen, h_batch,
                   drawVars>>
    /\ UNCHANGED allButDisplay
    /\ UNCHANGED <<histVars, lockVars>>

\* wait(timeout=seconds_until_next_minute) returns because the time is up:
\* the next minute has begun
display_wake_timeout ==
    /\ dispPc = "wait_timed"
    /\ ~disp_notified
    /\ dispPc' = "top"
    /\ minute_new' = TRUE
    /\ minute_shown' = FALSE
    /\ h_renders' = 0
    /\ UNCHANGED <<dispFlags, disp_notified, latest_reading, h_signalled,
                   h_unseen, h_batch>>
    /\ UNCHANGED <<last_display, static_drawn, h_write, h_shown, h_forced>>
    /\ UNCHANGED allButDisplay
    /\ UNCHANGED <<histVars, lockVars>>

\* ------------------------------------------------------------ the locks
\* a thread begins a handler
lock_begin(t) ==
    /\ lock_prog[t] = <<>>
    /\ \E h \in Handlers(t) : lock_prog' = [lock_prog EXCEPT ![t] = h]
    /\ UNCHANGED <<lock_owner, dataVars>>

\* `with lock:` is entered when the lock is free
lock_acquire(t) ==
    /\ lock_prog[t] # <<>>
    /\ Head(lock_prog[t]).op = "acquire"
    /\ lock_owner[Head(lock_prog[t]).lock] = "free"
    /\ lock_owner' = [lock_owner EXCEPT ![Head(lock_prog[t]).lock] = t]
    /\ lock_prog' = [lock_prog EXCEPT ![t] = Tail(@)]
    /\ UNCHANGED dataVars

\* the `with` block is left
lock_release(t) ==
    /\ lock_prog[t] # <<>>
    /\ Head(lock_prog[t]).op = "release"
    /\ lock_owner' = [lock_owner EXCEPT ![Head(lock_prog[t]).lock] = "free"]
    /\ lock_prog' = [lock_prog EXCEPT ![t] = Tail(@)]
    /\ UNCHANGED dataVars

\* a sleep, a sensor call, file or socket I/O, or an access to the flags
lock_pass(t) ==
    /\ lock_prog[t] # <<>>
    /\ Head(lock_prog[t]).op \in {"block", "flags"}
    /\ lock_prog' = [lock_prog EXCEPT ![t] = Tail(@)]
    /\ UNCHANGED <<lock_owner, dataVars>>

\* display_condition.wait(): the lock is let go, and taken again on the way out
lock_wait(t) ==
    /\ lock_prog[t] # <<>>
    /\ Head(lock_prog[t]).op = "wait"
    /\ lock_owner' = [lock_owner EXCEPT ![Head(lock_prog[t]).lock] = "free"]
    /\ lock_prog' = [lock_prog EXCEPT ![t] = <<Acquire(Head(@).lock)>> \o Tail(@)]
    /\ UNCHANGED dataVars

\* ------------------------------------------------------ specifications
\* the sampling path of read_co2, the sensor's values drawn from `values`
Sampling(values, max_samples) ==
    \/ init_sensor
    \/ read_co2_hw_sleep(max_samples)
    \/ read_co2_hw_read(values)
    \/ read_co2_hw_fail
    \/ read_co2_except
    \/ read_co2_simulate(values, max_samples)
    \/ read_co2_sim_wake
    \/ read_co2_append
    \/ read_co2_cleanup
    \/ read_co2_save
    \/ read_co2_notify

Calibration ==
    \/ read_co2_calibrate
    \/ perform_calibration_check
    \/ perform_calibration_prepare
    \/ perform_calibration_prepare_fail
    \/ perform_calibration_wait
    \/ perform_calibration_wait_shutdown
    \/ perform_calibration_force
    \/ perform_calibration_force_fail
    \/ perform_calibration_restore
    \/ perform_calibration_restore_fail
    \/ perform_calibration_finally
    \/ perform_calibration_notify
    \/ read_co2_clear

WebCalibrate == web_calibrate_set_event \/ web_calibrate_notify
Button == button_set_event \/ button_release

\* the acquisition thread and the window's readers, the clock moving
NextStore ==
    \/ main_load
    \/ Tick
    \/ Sampling(CO2Range, MaxSamples)
    \/ web_main_page
    \/ web_main_render
    \/ generate_plot_copy
    \/ plot_notify

SpecStore == Init /\ [][NextStore]_vars

\* the acquisition thread, with writes of the log that fail, and the two
\* calibration triggers, started on an empty data directory
NextCal ==
    \/ main_load
    \/ main_shutdown
    \/ read_co2_exit
    \/ Sampling(CalValues, CalSamples)
    \/ read_co2_save_fail
    \/ Calibration
    \/ web_calibrate
    \/ WebCalibrate
    \/ button_press
    \/ Button

InitCal == InitWith({NoLog})

\* every thread that can take a step eventually takes one; requests, presses
\* and the interrupt come when they come
SpecCal ==
    /\ InitCal
    /\ [][NextCal]_vars
    /\ WF_vars(main_load)
    /\ WF_vars(read_co2_exit \/ Sampling(CalValues, CalSamples) \/ read_co2_save_fail
                  \/ Calibration)
    /\ WF_vars(WebCalibrate)
    /\ WF_vars(Button)

\* the display loop outside a calibration
DisplayLoop ==
    \/ display_begin
    \/ display_force_redraw
    \/ display_exit
    \/ display_render
    \/ display_check
    \/ display_enter_wait
    \/ display_wake_notified
    \/ display_wake_timeout

Display == DisplayLoop \/ display_cal_sleep

PlotThread == generate_plot_copy \/ plot_notify \/ plot_notify_render_fail \/ plot_exit

\* the display with the acquisition loop and the plot generator, no calibration
\* being asked for
NextDisplay ==
    \/ main_load
    \/ main_shutdown
    \/ MinuteTick
    \/ read_co2_exit
    \/ Sampling(CalValues, CalSamples)
    \/ PlotThread
    \/ DisplayLoop

SpecDisplay ==
    /\ InitCal
    /\ [][NextDisplay]_vars
    /\ WF_vars(main_load)
    /\ WF_vars(read_co2_exit \/ Sampling(CalValues, CalSamples))
    /\ WF_vars(PlotThread)
    /\ WF_vars(DisplayLoop)

\* the acquisition loop while the sensor answers
SamplingHardware ==
    \/ init_sensor
    \/ read_co2_hw_sleep(CalSamples)
    \/ read_co2_hw_read(CalValues)
    \/ read_co2_append
    \/ read_co2_cleanup
    \/ read_co2_save
    \/ read_co2_notify

\* the calibration procedure while the sensor answers
CalibrationHardware ==
    \/ read_co2_calibrate
    \/ perform_calibration_check
    \/ perform_calibration_prepare
    \/ perform_calibration_wait
    \/ perform_calibration_wait_shutdown
    \/ perform_calibration_force
    \/ perform_calibration_restore
    \/ perform_calibration_finally
    \/ perform_calibration_notify
    \/ read_co2_clear

\* the display with the acquisition loop and calibrations asked for on the
\* web, the sensor answering every command it is sent
NextDisplayCal ==
    \/ main_load
    \/ main_shutdown
    \/ MinuteTick
    \/ read_co2_exit
    \/ SamplingHardware
    \/ CalibrationHardware
    \/ web_calibrate
    \/ WebCalibrate
    \/ Display

SpecDisplayCal == InitCal /\ [][NextDisplayCal]_vars

\* the loads, on data directories that hold lines that do not parse
NextLog ==
    \/ main_load
    \/ Tick
    \/ web_history

SpecLog == InitWith(DamagedLogs) /\ [][NextLog]_vars

\* runs of the acquisition loop that end and are followed by another start, on
\* a data directory that was empty at first
NextRestart ==
    \/ main_load
    \/ Tick
    \/ Sampling(CO2Range, MaxSamples)
    \/ web_history
    \/ main_restart

SpecRestart == InitWith({NoLog}) /\ [][NextRestart]_vars

\* the acquisition thread, the button and the main page of the web server
NextCalWeb ==
    \/ main_load
    \/ main_shutdown
    \/ read_co2_exit
    \/ Sampling(CalValues, CalSamples)
    \/ Calibration
    \/ button_press
    \/ Button
    \/ web_main_page
    \/ web_main_render

SpecCalWeb == InitCal /\ [][NextCalWeb]_vars

\* the threads as far as their locks are concerned
NextLocks ==
    \E t \in Threads :
        \/ lock_begin(t)
        \/ lock_acquire(t)
        \/ lock_release(t)
        \/ lock_pass(t)
        \/ lock_wait(t)

SpecLocks == InitWith({NoLog}) /\ [][NextLocks]_vars

Next == NextStore \/ NextCal \/ NextDisplay \/ NextDisplayCal \/ NextLog \/ NextRestart \/ NextLocks
          \/ NextCalWeb
Spec == Init /\ [][Next]_vars

\* ------------------------------------------------------------- the claims
\* the loop enters perform_calibration in this step
ExecutionStarts == pc = "loop" /\ pc' = "cal_start"

\* a step of a trigger handler whose request or press came while a cycle was open
LateTriggerStep ==
    \/ webPc = "idle" /\ webPc' = "cal_set_event" /\ CycleOpen
    \/ webPc = "cal_set_event" /\ webPc' = "cal_notify" /\ ~h_web_idle
    \/ btnPc = "idle" /\ btnPc' = "set_event" /\ CycleOpen
    \/ btnPc = "set_event" /\ btnPc' = "notify" /\ ~h_btn_idle

\* the acquisition loop reads the sensor in this step
SensorRead ==
    \/ pc = "hw_read" /\ pc' \in {"loop", "append"}
    \/ pc = "loop" /\ pc' = "sim_sleep"

\* the acquisition loop sets new_measurement and notifies in this step
NewMeasurementSignal == pc = "notify" /\ pc' = "loop"

\* a reader copies the window in this step
PlotCopies == plotPc # "render" /\ plotPc' = "render"
WebCopies == webPc = "idle" /\ webPc' = "main_render"

IsSorted(data) ==
    \A i \in 1..(Len(data) - 1) :
        strptime(data[i].timestamp) <= strptime(data[i + 1].timestamp)

NotBefore(data, t) == \A i \in 1..Len(data) : strptime(data[i].timestamp) >= t

\* C1: a calibration cycle leaves the state Idle: in no reachable state is
\* calibration_in_progress true while the acquisition loop is neither in a
\* calibration nor about to observe a pending request (a request whose
\* handler has set the flag and is about to set the event counts as pending).
C1_FlagOnlyInCycle ==
    calibration_in_progress => (CycleOpen \/ webPc = "cal_set_event")

\* C2: the triggers that arrive between the first trigger and the end of the
\* cycle it starts add no execution to that cycle's one: whenever the loop
\* enters the calibration procedure, a trigger that arrived with no cycle open
\* is still waiting for its execution.
C2_OneExecutionPerCycle == [][ExecutionStarts => h_owed]_vars

\* C3: a trigger (button or web) that arrives while the state is Requested,
\* Stabilizing, Calibrating or Resuming, the instants between the end of the
\* procedure and the loop's clear included, is a no-op: no step of its handler
\* changes calibration_in_progress or calibration_event.
C3_LateTriggerIsNoOp ==
    [][LateTriggerStep => UNCHANGED <<calibration_in_progress, calibration_event>>]_vars

\* C4: a trigger that arrives while no calibration is in progress is eventually
\* followed by an execution of the calibration procedure by the acquisition
\* loop, unless shutdown is signalled first: it is never silently dropped.
C4_IdleTriggerServed == h_owed ~> (~h_owed \/ shutdown_event)

\* C4, its case: the loop has entered the procedure for a button press that
\* came while Idle and whose handler has set the event
C4_ButtonPressServed ==
    pc = "cal_start" /\ ~h_owed /\ btnPc = "notify" /\ h_btn_idle

\* C5: whenever the calibration procedure is executing (from the start of
\* perform_calibration until its finally block clears the flag), the
\* process-wide flag calibration_in_progress is true, whichever source asked.
C5_FlagWhileExecuting == CalRunning => calibration_in_progress

\* C6: when a hardware call of the calibration procedure has failed, the
\* procedure still ends with the Resuming step done: the sampling interval
\* is the original one, the warm-up counter is SENSOR_WARMUP_READINGS and
\* forceRedraw is set.
C6_ResumedAfterFailure ==
    (pc = "cal_clear" /\ h_failed) =>
        /\ sensor_interval = CO2_MEASUREMENT_INTERVAL
        /\ readings_to_skip = SENSOR_WARMUP_READINGS
        /\ force_redraw

\* C7: at most one calibration procedure executes at any time, and while one
\* executes the acquisition loop reads no sensor value, appends nothing to the
\* window or to the log and signals no new measurement.
C7_CalibrationSerialized ==
    [][/\ h_depth' <= 1
       /\ h_depth > 0 =>
            /\ ~SensorRead
            /\ UNCHANGED <<measurements, csv>>
            /\ ~NewMeasurementSignal]_vars

\* C7, its case: the procedure is in its stabilization wait after the loop
\* has taken a measurement
C7_CalibratingAfterSampling ==
    h_depth = 1 /\ pc = "cal_wait" /\ cal_i > 0 /\ h_samples > 0

\* C8: after the startup load and any appends and prunes, the clock never
\* going back, the window and every copy of it taken by the plot generator or
\* the web handler is sorted ascending by timestamp.
C8_WindowSorted ==
    IsSorted(measurements) /\ IsSorted(web_data) /\ IsSorted(plot_data)

\* C8, its case: a copy holds a record of yesterday's file, one of today's
\* and a measurement appended by the loop
C8_CopyOfLoadedAndAppended ==
    /\ plotPc = "render"
    /\ Len(plot_data) = 3
    /\ DateOf(plot_data[1].timestamp) < DateOf(plot_data[2].timestamp)
    /\ h_samples > 0

\* C9: every entry of every snapshot (plot generator, web main page) has
\* timestamp >= now - W at the moment the snapshot is taken.
C9_SnapshotWithinWindow ==
    [][/\ PlotCopies => NotBefore(plot_data', now - HOURS_TO_KEEP)
       /\ WebCopies => NotBefore(web_data', now - HOURS_TO_KEEP)]_vars

\* C9 as amended: every entry of every snapshot has timestamp >= the cutoff
\* (the clock minus W) of the most recent startup load or prune.
C9_SnapshotSinceLastPrune ==
    [][/\ PlotCopies => NotBefore(plot_data', h_last_cut)
       /\ WebCopies => NotBefore(web_data', h_last_cut)]_vars

\* C9, its case: a copy taken after an append and its prune, the clock having
\* moved since, holds an entry older than now - W
C9_StaleCopy ==
    /\ webPc = "main_render"
    /\ h_samples > 0
    /\ h_last_cut < now - HOURS_TO_KEEP
    /\ ~NotBefore(web_data, now - HOURS_TO_KEEP)

\* C10: an append (the insertion, then the prune) is atomic for the readers: a
\* copy of the window taken after an insertion never shows what that
\* append's prune is there to remove.
C10_AppendAtomic ==
    [][pc = "cleanup" =>
         /\ PlotCopies => plot_data' = cleanup_old_measurements(measurements, now)
         /\ WebCopies => web_data' = cleanup_old_measurements(measurements, now)]_vars

\* the prune of an append happens in this step
PruneStep == pc = "cleanup" /\ pc' = "save"

InSeq(m, data) == \E i \in 1..Len(data) : data[i] = m

\* the entries of `wanted` still inside the retention window at the clock's
\* time are all in `data`
HoldsRecent(data, wanted) ==
    \A m \in wanted : strptime(m.timestamp) >= now - HOURS_TO_KEEP => InSeq(m, data)

\* C11: no write is lost: every snapshot (plot generator, web main page) holds
\* every measurement the loop has inserted whose timestamp is still >= now - W,
\* and a prune removes no entry whose timestamp is >= now - W.
C11_NoLostWrite ==
    [][/\ PlotCopies => HoldsRecent(plot_data', h_appended)
       /\ WebCopies => HoldsRecent(web_data', h_appended)
       /\ PruneStep =>
            HoldsRecent(measurements', {measurements[i] : i \in 1..Len(measurements)})]_vars

\* C11, its case: a copy holds an inserted measurement whose timestamp is
\* exactly now - W, a prune having run at this time
C11_CopyHoldsBoundaryEntry ==
    /\ webPc = "main_render"
    /\ h_last_cut = now - HOURS_TO_KEEP
    /\ \E m \in h_appended : strptime(m.timestamp) = now - HOURS_TO_KEEP /\ InSeq(m, web_data)

\* C12: each append prunes against the clock at the time of the append: when
\* the prune is done at time t the store holds no entry with timestamp < t - W;
\* a store whose entries are all inside the window is left as it was, in
\* arrival order, and a measurement appended more than W after all earlier
\* ones is left alone in the store.
C12_PruneAgainstClock ==
    [][PruneStep =>
         /\ NotBefore(measurements', now - HOURS_TO_KEEP)
         /\ NotBefore(measurements, now - HOURS_TO_KEEP) => measurements' = measurements
         /\ (/\ strptime(reading.timestamp) >= now - HOURS_TO_KEEP
             /\ \A i \in 1..(Len(measurements) - 1) :
                    strptime(measurements[i].timestamp) < now - HOURS_TO_KEEP)
            => measurements' = <<reading>>]_vars

\* C12, its case: the prune has just left the newest measurement alone in the
\* store, an earlier measurement of the loop being more than W old
C12_OnlyNewestLeft ==
    /\ pc = "save"
    /\ h_last_cut = now - HOURS_TO_KEEP
    /\ measurements = <<reading>>
    /\ \E m \in h_appended : strptime(m.timestamp) < now - HOURS_TO_KEEP

\* the display takes the latest reading in this step
DisplayReads == dispPc = "render" /\ dispPc' = "check"

\* measurement m is in the window, or a prune has since dropped it
Committed(m) == InSeq(m, measurements) \/ strptime(m.timestamp) < h_last_cut

\* C13: a new_measurement notification is issued only when the insertion and
\* the prune of its measurement are done, and a display iteration that takes
\* the latest reading after a notification finds in the store a latest entry
\* at least as new as the measurement notified, which is the value it shows
\* once the sensor is no longer warming up.
C13_NotifyAfterCommit ==
    [][/\ NewMeasurementSignal => Committed(reading)
       /\ (DisplayReads /\ h_signalled # NoReading) =>
            /\ measurements # <<>>
            /\ strptime(measurements[Len(measurements)].timestamp)
                 >= strptime(h_signalled.timestamp)
            /\ ~sensor_warming_up =>
                 latest_reading' = Shown("value", measurements[Len(measurements)])]_vars

\* C13, its case: woken by the notification of a measurement, the display has
\* taken that measurement as its latest reading
C13_DisplayShowsSignalled ==
    /\ dispPc = "check"
    /\ h_signalled # NoReading
    /\ latest_reading = Shown("value", h_signalled)
    /\ h_batch > 0

\* C14: every wait of the display on its condition has a timeout (no wait
\* without one is ever entered), so that the display recomputes at the next
\* minute at the latest.
C14_EveryWaitTimed == dispPc # "wait"

\* C15: no wake-up is lost: the display never blocks without a timeout while a
\* flag set by a producer has been read by none of its recomputations, unless
\* the producer's notification is there to wake it.
C15_NoLostWakeup == (dispPc = "wait" /\ h_unseen) => disp_notified

\* every thread that notifies the display has ended
ProducersDone == pc = "done" /\ plotPc = "done" /\ webPc = "idle" /\ btnPc = "idle"

\* C17: after shutdown no worker stays blocked forever: once the threads that
\* could notify it have ended, the display is not in a wait that has neither a
\* timeout nor a notification to end it.
C17_NoThreadBlockedForever ==
    (shutdown_event /\ ProducersDone /\ dispPc = "wait") => disp_notified

\* the display's wait ends with a notification
NotifiedWake == dispPc \in WaitPcs /\ disp_notified /\ dispPc' = "top"

\* the display begins a wait
WaitBegins == dispPc \in {"enter_timed", "enter_wait"} /\ dispPc' \in WaitPcs

\* C16: notifications are not queued: a wait ends with a notification only if
\* notifications came during that wait, however many they were it ends once
\* (nothing is left to end the next wait), the display makes exactly one
\* recomputation before it waits again, and a flag that was set is cleared by
\* nothing but the step of the display that reads it.
C16_SignalsCoalesce ==
    [][/\ NotifiedWake => (h_batch > 0 /\ ~disp_notified')
       /\ WaitBegins => (h_renders = 1 /\ ~disp_notified)
       /\ (force_redraw /\ ~force_redraw') => dispPc \in {"force_calibrating", "force_idle"}
       /\ (new_plot /\ ~new_plot') => dispPc = "render"
       /\ (new_measurement /\ ~new_measurement') => dispPc = "check"]_vars

\* C16, its case: two or more notifications came during one wait, of a new
\* measurement and of a finished calibration, and the display, woken once,
\* begins its one recomputation with both flags set
C16_TwoSignalsOneWake ==
    /\ dispPc = "top"
    /\ h_batch = 2
    /\ h_renders = 0
    /\ new_measurement
    /\ force_redraw
    /\ ~disp_notified

\* force_recalibration is called in this step
ForceInvoked == pc = "cal_wait" /\ cal_i = StabilizeSteps /\ pc' # pc

\* C18: a shutdown signalled during the stabilization wait stops the procedure:
\* force_recalibration is never called once shutdown_event is set.
C18_NoForceAfterShutdown == [][ForceInvoked => ~shutdown_event]_vars

\* save_to_csv returns in this step
SaveReturns == pc = "save" /\ pc' # pc

\* C19: a failed write of the log does not abort the acquisition: whatever
\* save_to_csv did, the loop goes on to the notification with the window and
\* the mode untouched, the notification sets new_measurement for that
\* measurement, and the loop is back at its top with no fallback to the
\* simulation.
C19_SaveFailureSwallowed ==
    [][/\ SaveReturns =>
            /\ pc' = "notify"
            /\ measurements' = measurements
            /\ use_hardware' = use_hardware
       /\ NewMeasurementSignal =>
            /\ new_measurement'
            /\ h_signalled' = reading
            /\ use_hardware' = use_hardware]_vars

\* C19, its case: a measurement of the hardware sensor was notified and is in
\* the window while the log has no row for it, and the loop is at its top, still
\* on the hardware
C19_KeptWithoutRow ==
    /\ pc = "loop"
    /\ use_hardware
    /\ new_measurement
    /\ h_signalled # NoReading
    /\ InSeq(h_signalled, measurements)
    /\ ~InSeq(DataRow(h_signalled), csv[DateOf(h_signalled.timestamp)])

\* the handler of read_co2 has run in this step
ReadFailureHandled == pc = "except" /\ pc' # pc

\* C20: a failed read of the hardware never ends the acquisition loop: the
\* handler switches to the simulation and returns to the top of the loop, the
\* loop once simulated stays simulated, and it ends on shutdown only.
C20_FallbackForGood ==
    [][/\ ReadFailureHandled => (pc' = "loop" /\ ~use_hardware')
       /\ (pc # "init" /\ ~use_hardware) => ~use_hardware'
       /\ (pc # "done" /\ pc' = "done") => (pc = "loop" /\ shutdown_event)]_vars

\* C20, its case: the sensor had been started (readings are still to be
\* skipped), a read failed, and the loop, simulated now, has appended a
\* measurement and is about to notify it
C20_SimulatedAfterFailure ==
    /\ pc = "notify"
    /\ readings_to_skip > 0
    /\ ~use_hardware
    /\ ~shutdown_event
    /\ InSeq(reading, measurements)

\* blocking_read_measurement_data() has returned a reading in this step
HwReadReturns == pc = "hw_read" /\ pc' \in {"loop", "append"}

\* C21: a hardware reading taken while readings_to_skip > 0 decrements the
\* counter by one and is discarded (the window, the log, the new_measurement
\* flag, the last notification and the warm-up flag are left as they were and
\* the loop is back at its top); a reading is kept only when the counter is 0,
\* and the counter is raised only to SENSOR_WARMUP_READINGS, by init_sensor or
\* by a calibration, so exactly that many readings are discarded first.
C21_WarmupReadingsDiscarded ==
    [][/\ (HwReadReturns /\ readings_to_skip > 0) =>
            /\ readings_to_skip' = readings_to_skip - 1
            /\ pc' = "loop"
            /\ UNCHANGED <<measurements, csv, new_measurement, h_signalled,
                           sensor_warming_up, h_appended>>
       /\ (HwReadReturns /\ pc' = "append") => readings_to_skip = 0
       /\ readings_to_skip' # readings_to_skip =>
            \/ HwReadReturns /\ readings_to_skip' = readings_to_skip - 1
            \/ /\ pc \in {"init", "cal_restore"}
               /\ readings_to_skip' = SENSOR_WARMUP_READINGS]_vars

\* C21, its case: the sensor was started, its warm-up readings were all
\* discarded and the first reading to be kept is about to be appended
C21_FirstKeptAfterWarmup ==
    /\ pc = "append"
    /\ use_hardware
    /\ readings_to_skip = 0
    /\ h_appended = {}
    /\ measurements = <<>>

\* C22: whenever the acquisition loop appends a measurement, in hardware mode
\* or simulated, sensor_warming_up has been cleared first.
C22_AppendAfterWarmupCleared == pc = "append" => ~sensor_warming_up

\* main() loads the window in this step
StartupLoad == ~started /\ started'

\* the well-formed records of the file of date d whose time is not before lo
WellFormedSince(log, d, lo) ==
    { Measurement(log[d][i].timestamp, log[d][i].co2) :
        i \in { j \in 2..Len(log[d]) : /\ log[d][j].kind = "row"
                                       /\ strptime(log[d][j].timestamp) >= lo } }

\* C23: a line that does not parse costs the load that line only: the startup
\* load returns every well-formed record of today's and yesterday's files that
\* is inside the window, those that follow a malformed line included.
C23_OnlyMalformedSkipped ==
    [][StartupLoad =>
         \A d \in {now \div HoursPerDay, now \div HoursPerDay - 1} \cap Dates :
            \A m \in WellFormedSince(csv, d, now - HOURS_TO_KEEP) :
               InSeq(m, measurements')]_vars

\* C25: get_data_range returns both bounds or neither, and the first is not
\* after the last.
C25_BothBoundsOrNeither ==
    /\ (data_range[1] = None) <=> (data_range[2] = None)
    /\ data_range[1] # None /\ data_range[2] # None => StrLeq(data_range[1], data_range[2])

\* how many times m occurs in data
Count(m, data) == Cardinality({ i \in 1..Len(data) : data[i] = m })

\* the measurements written so far whose time is not before lo
PersistedSince(lo) == SelectSeq(h_persisted, LAMBDA m : strptime(m.timestamp) >= lo)

Logged(m) == InSeq(DataRow(m), csv[DateOf(m.timestamp)])

\* the records of the log, file after file
RECURSIVE LogRecords(_, _)
LogRecords(log, d) ==
    IF d \notin Dates THEN <<>>
    ELSE LET rows == IF log[d] = <<>> THEN <<>> ELSE Tail(log[d])
         IN  [i \in 1..Len(rows) |-> Measurement(rows[i].timestamp, rows[i].co2)]
             \o LogRecords(log, d + 1)

\* the measurement that is appended and not yet written, if there is one
InFlight == IF pc \in {"cleanup", "save"} THEN {reading} ELSE {}

\* C29: absent write failures, every measurement the running loop has appended
\* is in the log, except the one of the iteration under way between its append
\* and its save; the log holds the measurements in the order they were
\* appended; so at most one appended measurement is not written.
C29_AtMostOneUnwritten ==
    /\ \A m \in h_appended \ InFlight : Logged(m)
    /\ LogRecords(csv, 0) = h_persisted
    /\ IsSorted(h_persisted)

\* C29, its case: a measurement is written, the next one is appended and its
\* save has not been done
C29_OneInFlight ==
    /\ pc = "save"
    /\ Len(h_persisted) >= 1
    /\ InSeq(reading, measurements)
    /\ ~Logged(reading)

\* C30: the log is append-only: in every step the content of every file is a
\* prefix of its content after the step, whatever the step does to the window.
C30_LogAppendOnly ==
    [][\A d \in Dates :
         /\ Len(csv[d]) <= Len(csv'[d])
         /\ SubSeq(csv'[d], 1, Len(csv[d])) = csv[d]]_vars

\* C30, its case: a measurement written by the running loop has been pruned
\* from the window and its record is still in the log
C30_PrunedStillLogged ==
    \E m \in h_appended : /\ ~InSeq(m, measurements)
                          /\ strptime(m.timestamp) < h_last_cut
                          /\ Logged(m)

\* the locks thread t is inside
HeldBy(t) == { l \in Locks : lock_owner[l] = t }

\* what thread t does next (it is running a handler)
NextOp(t) == Head(lock_prog[t])

\* thread t can take its next step
CanStep(t) ==
    \/ lock_prog[t] = <<>>
    \/ NextOp(t).op # "acquire"
    \/ lock_owner[NextOp(t).lock] = "free"

\* C26: no thread is inside two locks at once; a thread inside a lock is never
\* about to take another; a thread inside calibration_lock does nothing but
\* leave it (no sleep, sensor call, I/O or wait is made inside it); and at
\* every moment some thread can take a step and every thread inside a lock
\* can, so the threads never deadlock on the locks.
C26_LocksIndependent ==
    /\ \A t \in Threads :
         /\ Cardinality(HeldBy(t)) <= 1
         /\ HeldBy(t) # {} => (lock_prog[t] # <<>> /\ NextOp(t).op # "acquire" /\ CanStep(t))
         /\ lock_owner["calibration_lock"] = t =>
              NextOp(t) = Release("calibration_lock")
    /\ \E t \in Threads : CanStep(t)

\* C26, its case: the three locks are held by three threads at once and a
\* fourth thread is waiting for the calibration lock
C26_AllLocksHeld ==
    /\ lock_owner["calibration_lock"] = "web"
    /\ lock_owner["measurement_lock"] = "co2"
    /\ lock_owner["display_condition"] = "plot"
    /\ lock_prog["display"] # <<>>
    /\ NextOp("display") = Acquire("calibration_lock")

\* C27: every read, set and clear of the display's flags is made inside
\* display_condition.
C27_FlagsUnderCondition ==
    \A t \in Threads :
        (lock_prog[t] # <<>> /\ NextOp(t).op = "flags") =>
            lock_owner["display_condition"] = t

\* C28: a GET / that arrives while the calibration procedure is in its
\* stabilization wait is served without waiting for it: it takes its copy of
\* the window, which is the window as the last append left it, and the
\* calibration flag it goes on to read is set.
C28_QueryDuringCalibration ==
    [][(WebCopies /\ pc = "cal_wait") =>
         /\ web_data' = measurements
         /\ calibration_in_progress]_vars

\* the calibration has been forced and the sensor is back on its interval
CalibrationSucceeds == pc = "cal_restore" /\ pc' = "cal_finally" /\ ~h_failed'

\* C31: a calibration that succeeds leaves readings_to_skip at
\* SENSOR_WARMUP_READINGS and sensor_warming_up set; the rest of the procedure
\* and the return to the loop leave both as they are; and the flag is cleared
\* by nothing but a hardware reading that is kept, the counter being 0.
C31_WarmupAfterCalibration ==
    [][/\ CalibrationSucceeds =>
            (readings_to_skip' = SENSOR_WARMUP_READINGS /\ sensor_warming_up')
       /\ pc \in {"cal_finally", "cal_notify", "cal_clear"} =>
            UNCHANGED <<readings_to_skip, sensor_warming_up>>
       /\ (sensor_warming_up /\ ~sensor_warming_up') =>
            (HwReadReturns /\ pc' = "append" /\ readings_to_skip = 0)]_vars

\* C31, its case: a reading had been kept, a calibration has succeeded since,
\* and the loop is back at its top in its warm-up
C31_ResumedInWarmup ==
    /\ pc = "loop"
    /\ use_hardware
    /\ h_appended # {}
    /\ ~calibration_event
    /\ force_redraw
    /\ readings_to_skip = SENSOR_WARMUP_READINGS
    /\ sensor_warming_up

\* the display's step that tests force_redraw clears it
ForceRedrawConsumed == force_redraw /\ ~force_redraw'

\* C32: the iteration of the display that consumes force_redraw does not go on
\* to draw the calibration message from a copy of the calibration flag that the
\* end of the calibration has made stale; the static elements it has drawn are
\* then not wiped by the message.
C32_RedrawnAfterLastMessage ==
    [][ForceRedrawConsumed => ~(is_calibrating /\ ~calibration_in_progress)]_vars

\* the display, Idle, writes its text to the panel in this step
TextWritten == dispPc = "render" /\ h_write' = "text"

\* C33: a text is written to the panel only if it differs from the text last
\* written (in its reading, or in its time because the minute has changed), or
\* if force_redraw was consumed since that write; a recomputation that finds
\* the same text, nothing having been forced, writes nothing.
C33_WritesOnlyChanges ==
    [][TextWritten =>
          \/ h_shown # DisplayText(latest_reading')
          \/ ~minute_shown
          \/ h_forced]_vars

\* C33, its case: the display was woken, has computed the very text the panel
\* shows and has written nothing
C33_UnchangedNotWritten ==
    /\ dispPc = "check"
    /\ h_renders = 1
    /\ h_write = "none"
    /\ minute_shown
    /\ ~h_forced
    /\ h_shown = DisplayText(latest_reading)

\* C34: a text written while new_plot is set goes out with the chart image
\* merged into the frame: the step that writes it pastes the image and clears
\* new_plot.
C34_MergedBeforeWrite == [][(TextWritten /\ new_plot) => ~new_plot']_vars

\* the plot generator sets new_plot and notifies the display in this step
PlotSignals == plotPc = "render" /\ plotPc' = "wait"

\* C36: new_plot is set, and the display notified, only when the chart image
\* on disk has been drawn from the copy of the window taken in the same cycle.
C36_ImageBeforeSignal == [][PlotSignals => png_file' = "current"]_vars

\* the display is in an iteration that found the calibration flag set
ShowsCalibration == dispPc \in {"force_calibrating", "cal_sleep"}

\* C35: an iteration of the display that found the calibration flag set draws
\* the calibration message and sleeps: it does not wait on the condition, clears
\* neither new_measurement nor new_plot, and leaves last_display and the
\* last-minute marker as they were.
C35_CalibrationIterationInert ==
    [][ShowsCalibration =>
          /\ dispPc' \in {"force_calibrating", "cal_sleep", "top"}
          /\ new_measurement => new_measurement'
          /\ new_plot => new_plot'
          /\ last_display' = last_display
          /\ minute_new => minute_new']_vars

HistoryServed ==
    /\ started /\ started'
    /\ <<h_query, data_range, historical_data>>' # <<h_query, data_range, historical_data>>

\* the measurements written so far whose time is from lo to hi, both included
PersistedBetween(lo, hi) ==
    SelectSeq(h_persisted, LAMBDA m : lo <= strptime(m.timestamp) /\ strptime(m.timestamp) <= hi)

SimulatedCalibration == pc \in CalPcs /\ (~use_hardware \/ ~sensor)

\* C39: in simulated mode the calibration procedure sends the sensor nothing
\* and does not wait: it goes from its check to its finally block, which
\* clears calibration_in_progress, sets force_redraw and notifies the display;
\* the loop then clears calibration_event and is back at its top; the warm-up
\* counter and flag and the measurement interval are left as they were.
C39_SimulatedCalibrationImmediate ==
    [][SimulatedCalibration =>
         /\ pc' \notin {"cal_prepare", "cal_wait", "cal_restore"}
         /\ UNCHANGED <<readings_to_skip, sensor_warming_up, sensor_interval, cal_i>>
         /\ (pc = "cal_finally" /\ pc' # pc) => ~calibration_in_progress'
         /\ (pc = "cal_notify" /\ pc' # pc) =>
               (force_redraw' /\ (dispPc \in WaitPcs => disp_notified'))
         /\ (pc = "cal_clear" /\ pc' # pc) =>
               (~calibration_event' /\ pc' = "loop")]_vars

\* C39, its case: without hardware a requested calibration is over, the loop
\* is back at its top, and the display, which was waiting, has its
\* notification and force_redraw to read
C39_SimulatedCalibrationDone ==
    /\ pc = "loop"
    /\ ~use_hardware
    /\ ~calibration_event
    /\ ~calibration_in_progress
    /\ force_redraw
    /\ dispPc \in WaitPcs
    /\ disp_notified
    /\ sensor_warming_up

====
